---------------------------- MODULE Spec2Model ----------------------------
(***************************************************************************)
(* State-machine model of the GPU core of rustation (src/src/gpu/mod.rs):  *)
(* the GP0/GP1 command protocol, the video-timing cursor advanced by       *)
(* `sync`, the VBlank edge detection and the next-sync prediction.         *)
(*                                                                         *)
(* Representation notes.                                                   *)
(*  - TLC integers are 32-bit, so a 32-bit bus word is the record          *)
(*    [op |-> bits 31..24, arg |-> bits 23..0] and the Q16.16 products of   *)
(*    `sync` / `predict_next_sync` are computed limb by limb; each helper   *)
(*    states the identity it rests on.                                     *)
(*  - A handler is one operator over a "world" record                      *)
(*    [gpu, tk, panicked, obs]; an action applies the whole handler.       *)
(*  - `obs` records what the most recent operation did to its              *)
(*    collaborators (interrupt controller, renderer, timers, timekeeper).  *)
(***************************************************************************)
EXTENDS Integers, Sequences, FiniteSets, TLC

VARIABLES
    gpu,              \* the fields of struct Gpu
    tk,               \* the TimeKeeper as seen by Peripheral::Gpu
    panicked,         \* TRUE once a panic!() has ended the emulator
    overflow_checks,  \* build profile: TRUE = arithmetic overflow panics
    obs,              \* collaborator calls made by the most recent operation
    hist,             \* history variables used by the properties only
    budget            \* how many inputs of each kind the environment has sent

vars == <<gpu, tk, panicked, overflow_checks, obs, hist, budget>>

-----------------------------------------------------------------------------
(* Bounds of the model *)

\* Number of times emulated time is advanced between operations.
MaxAdvances == 2

\* Number of GP1 stores in a behaviour.
MaxControlStores == 1

\* Number of frames of emulated time followed under the deadline-driven
\* specification.
MaxFrames == 3

\* Words stored to GP0 and GP1 under the specification of the registers.
MaxRegisterStores == 2

\* GP0 parameters (after the command word) that range over ParamWords; the
\* later parameters of a long packet are zero words.
MaxVariedParams == 1

-----------------------------------------------------------------------------
(* 32-bit words *)

W(op, arg) == [op |-> op, arg |-> arg]

\* val >> 24
Top(val) == val.op

\* (val >> shift) & (2^n - 1), for shift + n <= 24
Bits(val, shift, n) == (val.arg \div (2 ^ shift)) % (2 ^ n)

\* val & 0xffff and val >> 16
Lo16(val) == val.arg % 65536
Hi16(val) == val.op * 256 + val.arg \div 65536

-----------------------------------------------------------------------------
(* Enumerations and their discriminants *)

\* Variant of Field_as with the discriminants of the two fields exchanged.
Field_as_top_zero(f) == IF f = "Top" THEN 0 ELSE 1

Field_as(f) == IF f = "Top" THEN 1 ELSE 0

VMode_as(m) == IF m = "Pal" THEN 1 ELSE 0

-----------------------------------------------------------------------------
(* Video timings and the clock ratio *)

vmode_timings(g) ==
    IF g.vmode = "Ntsc"
    THEN [ticks_per_line |-> 3412, lines_per_frame |-> 263]
    ELSE [ticks_per_line |-> 3404, lines_per_frame |-> 314]

\* FracCycles::from_f32(gpu_clock / cpu_clock).get_fp(): the f32 quotient
\* 53_690_000 / 33_868_500 (53_200_000 for PAL hardware; the divisor is
\* cpu::CPU_FREQ_HZ, declared outside these sources) times 2^16, truncated.  1.58524883 * 65536 = 103890.87 and 1.57078111 * 65536 = 102942.71.
gpu_to_cpu_clock_ratio(g) ==
    IF g.hardware = "Ntsc" THEN 103890 ELSE 102942

-----------------------------------------------------------------------------
(* Fixed-point helpers (u64 arithmetic of the source, in 32-bit limbs) *)

\* d * ratio as [int |-> (d * ratio) >> 16 less the carry of the low word,
\*               frac |-> low 16 bits], for d < 2^25 and ratio < 2^17.
\* With ratio = ri * 2^16 + rf and d = dh * 2^10 + dl:
\*   d * rf = 2^10 * (dh * rf) + dl * rf.
MulRatio(d, ratio) ==
    LET ri == ratio \div 65536
        rf == ratio % 65536
        dh == d \div 1024
        dl == d % 1024
        ph == dh * rf
        low == 1024 * (ph % 65536) + dl * rf
    IN  [int  |-> d * ri + 1024 * (ph \div 65536) + low \div 65536,
         frac |-> low % 65536]

\* (t * 2^16 - p + r - 1) / r for t >= 0, 0 <= p < 2^16, p <= r - 1 < 2^17,
\* by long division in base 2^8:
\*   t = q1 * r + r1,  r1 * 2^8 = q2 * r + r2,
\*   t * 2^16 - p + r - 1 = (q1 * 2^16 + q2 * 2^8) * r + (r2 * 2^8 - p + r - 1).
CeilDivQ16(t, p, r) ==
    LET q1 == t \div r
        r1 == t % r
        q2 == (r1 * 256) \div r
        r2 == (r1 * 256) % r
    IN  q1 * 65536 + q2 * 256 + (r2 * 256 - p + r - 1) \div r

\* The hexadecimal digits of n, most significant first, `len` of them.
RECURSIVE HexDigits(_, _)
HexDigits(n, len) ==
    IF len = 0 THEN <<>> ELSE Append(HexDigits(n \div 16, len - 1), n % 16)

\* Schoolbook division of a digit string by r, starting from remainder rem:
\* [q |-> quotient, rem |-> remainder].
RECURSIVE DivDigits(_, _, _)
DivDigits(digits, rem, r) ==
    IF digits = <<>> THEN [q |-> 0, rem |-> rem]
    ELSE LET front == DivDigits(SubSeq(digits, 1, Len(digits) - 1), rem, r)
             cur == front.rem * 16 + digits[Len(digits)]
         IN  [q |-> front.q * 16 + cur \div r, rem |-> cur % r]

\* A u64 as [hi, lo] with value hi * 2^28 + lo.
U64(n) == [hi |-> 0, lo |-> n]

\* (2^64 + s) / r for -2^28 <= s < 0: the u64 quotient after `s` wrapped.
\* 2^64 + s = (2^36 - 1) * 2^28 + (2^28 + s): nine digits F, then the seven
\* digits of 2^28 + s.
WrappedDiv(s, r) ==
    LET high == DivDigits(<<15, 15, 15, 15, 15, 15, 15, 15, 15>>, 0, r)
        low  == DivDigits(HexDigits(268435456 + s, 7), high.rem, r)
    IN  [hi |-> high.q, lo |-> low.q]

-----------------------------------------------------------------------------
(* Construction *)

CommandBuffer_new == <<>>

Gpu_new(hardware) ==
    [ page_base_x              |-> 0,
      page_base_y              |-> 0,
      rectangle_texture_x_flip |-> FALSE,
      rectangle_texture_y_flip |-> FALSE,
      semi_transparency        |-> 0,
      texture_depth            |-> "T4Bit",
      texture_window_x_mask    |-> 0,
      texture_window_y_mask    |-> 0,
      texture_window_x_offset  |-> 0,
      texture_window_y_offset  |-> 0,
      dithering                |-> FALSE,
      draw_to_display          |-> FALSE,
      force_set_mask_bit       |-> FALSE,
      preserve_masked_pixels   |-> FALSE,
      drawing_area_left        |-> 0,
      drawing_area_top         |-> 0,
      drawing_area_right       |-> 0,
      drawing_area_bottom      |-> 0,
      drawing_offset           |-> <<0, 0>>,
      field                    |-> "Top",
      texture_disable          |-> FALSE,
      hres                     |-> 0,
      vres                     |-> "Y240Lines",
      vmode                    |-> "Ntsc",
      display_depth            |-> "D15Bits",
      interlaced               |-> FALSE,
      display_disabled         |-> TRUE,
      display_vram_x_start     |-> 0,
      display_vram_y_start     |-> 0,
      display_horiz_start      |-> 512,
      display_horiz_end        |-> 3072,
      display_line_start       |-> 16,
      display_line_end         |-> 256,
      dma_direction            |-> "Off",
      gp0_command              |-> CommandBuffer_new,
      gp0_words_remaining      |-> 0,
      gp0_command_method       |-> "gp0_nop",
      gp0_mode                 |-> "Command",
      gp0_interrupt            |-> FALSE,
      vblank_interrupt         |-> FALSE,
      gpu_clock_phase          |-> 0,
      display_line             |-> 0,
      display_line_tick        |-> 0,
      hardware                 |-> hardware,
      read_word                |-> W(0, 0) ]

\* What an operation did to its collaborators; empty when it starts.
NoObs(op) ==
    [ op       |-> op,     \* "new", "sync", "load", "gp0" or "gp1"
      val      |-> W(0, 0),\* the word stored (stores only)
      syncs    |-> <<>>,   \* one report per call of sync, in order
      decoded  |-> FALSE,  \* gp0 decoded the word as a new opcode
      handlers |-> <<>>,   \* GP0 command methods run, in order
      draws    |-> <<>>,   \* renderer calls other than display(), in order
      notified |-> <<>>,   \* calls of Timers::video_timings_changed
      regs_changed |-> FALSE, \* the word changed a field other than the GP0 counter and mode
      result   |-> W(0, 0) ]

panic(w) == [w EXCEPT !.panicked = TRUE]

-----------------------------------------------------------------------------
(* sync and predict_next_sync *)

in_vblank(g) ==
    g.display_line < g.display_line_start \/ g.display_line >= g.display_line_end

\* Faulty variant of sync_cursor: a started GPU tick counts as a whole one.
sync_cursor_started_tick(g, delta_cpu) ==
    LET ratio     == gpu_to_cpu_clock_ratio(g)
        m         == MulRatio(delta_cpu, ratio)
        \* low 16 bits and carry of gpu_clock_phase + delta * ratio
        acc_frac  == g.gpu_clock_phase + m.frac
        delta     == m.int + (acc_frac + 65535) \div 65536
        t         == vmode_timings(g)
        line_tick == g.display_line_tick + delta
        line      == g.display_line + line_tick \div t.ticks_per_line
        g1        == [g EXCEPT !.gpu_clock_phase = acc_frac % 65536,
                               !.display_line_tick = line_tick % t.ticks_per_line]
    IN  IF line > t.lines_per_frame
        THEN [g1 EXCEPT
                !.field = IF g.interlaced
                          THEN IF (line \div t.lines_per_frame + Field_as(g.field)) % 2 # 0
                               THEN "Top" ELSE "Bottom"
                          ELSE g.field,
                !.display_line = line % t.lines_per_frame]
        ELSE [g1 EXCEPT !.display_line = line]

\* Faulty variant of sync_cursor: gpu_clock_phase is not written back.
sync_cursor_phase_kept(g, delta_cpu) ==
    LET ratio     == gpu_to_cpu_clock_ratio(g)
        m         == MulRatio(delta_cpu, ratio)
        \* low 16 bits and carry of gpu_clock_phase + delta * ratio
        acc_frac  == g.gpu_clock_phase + m.frac
        delta     == m.int + acc_frac \div 65536
        t         == vmode_timings(g)
        line_tick == g.display_line_tick + delta
        line      == g.display_line + line_tick \div t.ticks_per_line
        g1        == [g EXCEPT !.display_line_tick = line_tick % t.ticks_per_line]
    IN  IF line > t.lines_per_frame
        THEN [g1 EXCEPT
                !.field = IF g.interlaced
                          THEN IF (line \div t.lines_per_frame + Field_as(g.field)) % 2 # 0
                               THEN "Top" ELSE "Bottom"
                          ELSE g.field,
                !.display_line = line % t.lines_per_frame]
        ELSE [g1 EXCEPT !.display_line = line]

\* Lines 243-286 of sync: the timing cursor after delta_cpu CPU cycles.
sync_cursor(g, delta_cpu) ==
    LET ratio     == gpu_to_cpu_clock_ratio(g)
        m         == MulRatio(delta_cpu, ratio)
        \* low 16 bits and carry of gpu_clock_phase + delta * ratio
        acc_frac  == g.gpu_clock_phase + m.frac
        delta     == m.int + acc_frac \div 65536
        t         == vmode_timings(g)
        line_tick == g.display_line_tick + delta
        line      == g.display_line + line_tick \div t.ticks_per_line
        g1        == [g EXCEPT !.gpu_clock_phase = acc_frac % 65536,
                               !.display_line_tick = line_tick % t.ticks_per_line]
    IN  IF line > t.lines_per_frame
        THEN [g1 EXCEPT
                !.field = IF g.interlaced
                          THEN IF (line \div t.lines_per_frame + Field_as(g.field)) % 2 # 0
                               THEN "Top" ELSE "Bottom"
                          ELSE g.field,
                !.display_line = line % t.lines_per_frame]
        ELSE [g1 EXCEPT !.display_line = line]

\* Lines 313-347 of predict_next_sync: the tick distance `delta` before its
\* conversion, as the mathematical value of the u64 expression.  When a
\* subtraction goes below zero and the build wraps, the u64 holds this value
\* modulo 2^64 (addition and multiplication wrap consistently).
next_sync_ticks(g) ==
    LET t        == vmode_timings(g)
        cur_line == g.display_line
        first    == t.ticks_per_line - g.display_line_tick
    IN  IF cur_line >= g.display_line_end
        THEN first + (t.lines_per_frame - cur_line) * t.ticks_per_line
                   + (g.display_line_start - 1) * t.ticks_per_line
        ELSE IF cur_line < g.display_line_start
        THEN first + (g.display_line_start - 1 - cur_line) * t.ticks_per_line
        ELSE first + (g.display_line_end - 1 - cur_line) * t.ticks_per_line

\* Some u64 subtraction of predict_next_sync goes below zero.
next_sync_underflows(g) ==
    LET t        == vmode_timings(g)
        cur_line == g.display_line
    IN  \/ t.ticks_per_line < g.display_line_tick
        \/ /\ cur_line >= g.display_line_end
           /\ (t.lines_per_frame < cur_line \/ g.display_line_start < 1)
        \/ /\ cur_line < g.display_line_end
           /\ cur_line < g.display_line_start
           /\ g.display_line_start - 1 < cur_line
        \/ /\ cur_line < g.display_line_end
           /\ cur_line >= g.display_line_start
           /\ g.display_line_end - 1 < cur_line
        \/ next_sync_ticks(g) = 0 /\ g.gpu_clock_phase > 0

\* Lines 349-357 of predict_next_sync: (delta << 16 - phase + ratio - 1) / ratio
\* in u64, for the tick distance `ticks` (negative: wrapped).
next_sync_cycles(ticks, phase, ratio) ==
    IF ticks >= 0
    THEN U64(CeilDivQ16(ticks, phase, ratio))
    ELSE LET s == ticks * 65536 - phase + ratio - 1
         IN  IF s >= 0 THEN U64(s \div ratio) ELSE WrappedDiv(s, ratio)

predict_next_sync(w) ==
    LET g == w.gpu
    IN  IF overflow_checks /\ next_sync_underflows(g)
        THEN panic(w)
        ELSE [w EXCEPT !.tk.next_sync_delta =
                  next_sync_cycles(next_sync_ticks(g), g.gpu_clock_phase,
                                   gpu_to_cpu_clock_ratio(g))]

\* The report sync leaves in obs.syncs: the cursor it produced, the calls it
\* made (assert(VBlank), renderer.display(), set_next_sync_delta).
SyncReport(before, delta_cpu, w, asserted, displayed) ==
    [ vmode             |-> w.gpu.vmode,
      elapsed           |-> delta_cpu,
      interlaced_before |-> before.interlaced,
      display_line      |-> w.gpu.display_line,
      display_line_tick |-> w.gpu.display_line_tick,
      gpu_clock_phase   |-> w.gpu.gpu_clock_phase,
      interlaced        |-> w.gpu.interlaced,
      field             |-> w.gpu.field,
      vmode_before      |-> before.vmode,
      line_before       |-> before.display_line,
      tick_before       |-> before.display_line_tick,
      phase_before      |-> before.gpu_clock_phase,
      field_before      |-> before.field,
      was_vblank        |-> before.vblank_interrupt,
      in_vblank         |-> in_vblank(w.gpu),
      asserted          |-> asserted,
      displayed         |-> displayed,
      delta_ticks       |-> next_sync_ticks(w.gpu),
      ratio             |-> gpu_to_cpu_clock_ratio(w.gpu),
      registered        |-> ~w.panicked,
      deadline          |-> w.tk.next_sync_delta ]

\* Faulty variant of sync: renderer.display() on every sync that ends outside
\* the vertical blanking.
sync_displays_outside_vblank(w) ==
    IF w.panicked THEN w
    ELSE
    LET delta == w.tk.elapsed
        g1    == sync_cursor(w.gpu, delta)
        vblank_interrupt == in_vblank(g1)
        asserted  == IF ~w.gpu.vblank_interrupt /\ vblank_interrupt THEN 1 ELSE 0
        displayed == IF ~vblank_interrupt THEN 1 ELSE 0
        w1    == [w EXCEPT !.tk.elapsed = 0,
                           !.gpu = [g1 EXCEPT !.vblank_interrupt = vblank_interrupt]]
        w2    == predict_next_sync(w1)
    IN  [w2 EXCEPT !.obs.syncs = Append(@, SyncReport(w.gpu, delta, w2, asserted, displayed))]

sync(w) ==
    IF w.panicked THEN w
    ELSE
    LET delta == w.tk.elapsed
        g1    == sync_cursor(w.gpu, delta)
        vblank_interrupt == in_vblank(g1)
        \* irq_state.assert(Interrupt::VBlank) on the rising edge
        asserted  == IF ~w.gpu.vblank_interrupt /\ vblank_interrupt THEN 1 ELSE 0
        \* renderer.display() on the falling edge
        displayed == IF w.gpu.vblank_interrupt /\ ~vblank_interrupt THEN 1 ELSE 0
        w1    == [w EXCEPT !.tk.elapsed = 0,
                           !.gpu = [g1 EXCEPT !.vblank_interrupt = vblank_interrupt]]
        w2    == predict_next_sync(w1)
    IN  [w2 EXCEPT !.obs.syncs = Append(@, SyncReport(w.gpu, delta, w2, asserted, displayed))]

-----------------------------------------------------------------------------
(* The status and read registers *)

BoolBit(b) == IF b THEN 1 ELSE 0

TextureDepth_as(d) == CASE d = "T4Bit" -> 0 [] d = "T8Bit" -> 1 [] d = "T15Bit" -> 2

VerticalRes_as(v) == IF v = "Y480Lines" THEN 1 ELSE 0

DisplayDepth_as(d) == IF d = "D24Bits" THEN 1 ELSE 0

\* Faulty variant of DmaDirection_as: Off and Fifo exchanged.
DmaDirection_as_fifo_zero(d) ==
    CASE d = "Off" -> 1 [] d = "Fifo" -> 0 [] d = "CpuToGp0" -> 2 [] d = "VRamToCpu" -> 3

DmaDirection_as(d) ==
    CASE d = "Off" -> 0 [] d = "Fifo" -> 1 [] d = "CpuToGp0" -> 2 [] d = "VRamToCpu" -> 3

\* Faulty variant of displayed_vram_line: the interlaced case is missing.
displayed_vram_line_progressive(g) ==
    (g.display_vram_y_start + g.display_line) % 512

displayed_vram_line(g) ==
    LET offset == IF g.interlaced
                  THEN g.display_line * 2 + Field_as(g.field)
                  ELSE g.display_line
    IN  (g.display_vram_y_start + offset) % 512

\* The fields occupy disjoint bit ranges, so `|=` of the shifted fields is
\* their sum.  Bits 0..23 are `arg`, bits 24..31 are `op`.
status(g) ==
    LET \* bits 24..31 before the DMA request bit is known
        high == BoolBit(g.gp0_interrupt)
                  + 4 + 8 + 16
                  + DmaDirection_as(g.dma_direction) * 32
                  + (IF ~in_vblank(g) THEN (displayed_vram_line(g) % 2) * 128 ELSE 0)
        dma_request ==
            CASE g.dma_direction = "Off"       -> 0
              [] g.dma_direction = "Fifo"      -> 1
              [] g.dma_direction = "CpuToGp0"  -> (high \div 16) % 2   \* (r >> 28) & 1
              [] g.dma_direction = "VRamToCpu" -> (high \div 8) % 2    \* (r >> 27) & 1
    IN  W( high + dma_request * 2,
           g.page_base_x
             + g.page_base_y * 16
             + g.semi_transparency * 32
             + TextureDepth_as(g.texture_depth) * 128
             + BoolBit(g.dithering) * 512
             + BoolBit(g.draw_to_display) * 1024
             + BoolBit(g.force_set_mask_bit) * 2048
             + BoolBit(g.preserve_masked_pixels) * 4096
             + Field_as(g.field) * 8192
             + BoolBit(g.texture_disable) * 32768
             + g.hres * 65536
             + VerticalRes_as(g.vres) * 524288
             + VMode_as(g.vmode) * 1048576
             + DisplayDepth_as(g.display_depth) * 2097152
             + BoolBit(g.interlaced) * 4194304
             + BoolBit(g.display_disabled) * 8388608 )

read(g) == g.read_word

-----------------------------------------------------------------------------
(* CommandBuffer.  The model keeps the `len` valid words: clear() leaves   *)
(* the backing array alone, but a word at or above len cannot be read      *)
(* (index panics) before push_word has overwritten it.                     *)

CommandBuffer_capacity == 12

\* Faulty variant of CommandBuffer_clear: the words stay queued.
CommandBuffer_clear_keeps_words(buf) == buf

CommandBuffer_clear(buf) == <<>>

\* self.buffer[self.len] = word panics when the array is full.
CommandBuffer_push_word(w, word) ==
    IF Len(w.gpu.gp0_command) >= CommandBuffer_capacity
    THEN panic(w)
    ELSE [w EXCEPT !.gpu.gp0_command = Append(@, word)]

\* index(): the words a handler may read, or a panic.
CanIndex(w, index) == index < Len(w.gpu.gp0_command)

Cmd(w, index) == w.gpu.gp0_command[index + 1]

-----------------------------------------------------------------------------
(* Renderer values (gpu::opengl is outside these sources) *)

SignExtend11(v) == LET x == v % 2048 IN IF x >= 1024 THEN x - 2048 ELSE x

Position_from_gp0(val) == <<SignExtend11(Lo16(val)), SignExtend11(Hi16(val))>>

Color_from_gp0(val) == <<Bits(val, 0, 8), Bits(val, 8, 8), Bits(val, 16, 8)>>

Renderer_push(w, kind, positions, colors) ==
    [w EXCEPT !.obs.draws =
        Append(@, [call |-> kind, positions |-> positions, colors |-> colors])]

Renderer_set_draw_offset(w, x, y) ==
    [w EXCEPT !.obs.draws = Append(@, [call |-> "set_draw_offset", x |-> x, y |-> y])]

-----------------------------------------------------------------------------
(* GP0 command methods.  Each reads gp0_command through index(), which     *)
(* panics at or above len.                                                 *)

\* Faulty variant of gp0_nop: the command requests the GP0 interrupt.
gp0_nop_requests_interrupt(w) == [w EXCEPT !.gpu.gp0_interrupt = TRUE]

gp0_nop(w) == w

gp0_clear_cache(w) == w

\* The quad of a rectangle: top_left = word[1], size = word[size_index].
RectQuad(w, size_index) ==
    LET top_left == Position_from_gp0(Cmd(w, 1))
        size     == Position_from_gp0(Cmd(w, size_index))
        color    == Color_from_gp0(Cmd(w, 0))
    IN  Renderer_push(w, "push_quad",
            << top_left,
               <<top_left[1] + size[1], top_left[2]>>,
               <<top_left[1], top_left[2] + size[2]>>,
               <<top_left[1] + size[1], top_left[2] + size[2]>> >>,
            <<color, color, color, color>>)

gp0_fill_rect(w) ==
    IF ~CanIndex(w, 2) THEN panic(w) ELSE RectQuad(w, 2)

gp0_triangle_mono_opaque(w) ==
    IF ~CanIndex(w, 3) THEN panic(w)
    ELSE LET color == Color_from_gp0(Cmd(w, 0))
         IN  Renderer_push(w, "push_triangle",
                 << Position_from_gp0(Cmd(w, 1)), Position_from_gp0(Cmd(w, 2)),
                    Position_from_gp0(Cmd(w, 3)) >>,
                 <<color, color, color>>)

gp0_quad_mono_opaque(w) ==
    IF ~CanIndex(w, 4) THEN panic(w)
    ELSE LET color == Color_from_gp0(Cmd(w, 0))
         IN  Renderer_push(w, "push_quad",
                 << Position_from_gp0(Cmd(w, 1)), Position_from_gp0(Cmd(w, 2)),
                    Position_from_gp0(Cmd(w, 3)), Position_from_gp0(Cmd(w, 4)) >>,
                 <<color, color, color, color>>)

\* Color(0x80, 0x00, 0x00)
SolidRed == <<128, 0, 0>>

gp0_quad_texture_blend_opaque(w) ==
    IF ~CanIndex(w, 7) THEN panic(w)
    ELSE Renderer_push(w, "push_quad",
             << Position_from_gp0(Cmd(w, 1)), Position_from_gp0(Cmd(w, 3)),
                Position_from_gp0(Cmd(w, 5)), Position_from_gp0(Cmd(w, 7)) >>,
             <<SolidRed, SolidRed, SolidRed, SolidRed>>)

gp0_quad_texture_raw_opaque(w) ==
    IF ~CanIndex(w, 7) THEN panic(w)
    ELSE Renderer_push(w, "push_quad",
             << Position_from_gp0(Cmd(w, 1)), Position_from_gp0(Cmd(w, 3)),
                Position_from_gp0(Cmd(w, 5)), Position_from_gp0(Cmd(w, 7)) >>,
             <<SolidRed, SolidRed, SolidRed, SolidRed>>)

gp0_triangle_shaded_opaque(w) ==
    IF ~CanIndex(w, 5) THEN panic(w)
    ELSE Renderer_push(w, "push_triangle",
             << Position_from_gp0(Cmd(w, 1)), Position_from_gp0(Cmd(w, 3)),
                Position_from_gp0(Cmd(w, 5)) >>,
             << Color_from_gp0(Cmd(w, 0)), Color_from_gp0(Cmd(w, 2)),
                Color_from_gp0(Cmd(w, 4)) >>)

gp0_quad_shaded_opaque(w) ==
    IF ~CanIndex(w, 7) THEN panic(w)
    ELSE Renderer_push(w, "push_quad",
             << Position_from_gp0(Cmd(w, 1)), Position_from_gp0(Cmd(w, 3)),
                Position_from_gp0(Cmd(w, 5)), Position_from_gp0(Cmd(w, 7)) >>,
             << Color_from_gp0(Cmd(w, 0)), Color_from_gp0(Cmd(w, 2)),
                Color_from_gp0(Cmd(w, 4)), Color_from_gp0(Cmd(w, 6)) >>)

gp0_rect_opaque(w) ==
    IF ~CanIndex(w, 2) THEN panic(w) ELSE RectQuad(w, 2)

gp0_rect_texture_blend_opaque(w) ==
    IF ~CanIndex(w, 3) THEN panic(w) ELSE RectQuad(w, 3)

gp0_rect_texture_raw_opaque(w) ==
    IF ~CanIndex(w, 3) THEN panic(w) ELSE RectQuad(w, 3)

gp0_image_load(w) ==
    IF ~CanIndex(w, 2) THEN panic(w)
    ELSE LET res     == Cmd(w, 2)
             width   == Lo16(res)
             height  == Hi16(res)
             \* (width * height + 1) & !1
             imgsize == ((width * height + 1) \div 2) * 2
         IN  [w EXCEPT !.gpu.gp0_words_remaining = imgsize \div 2,
                       !.gpu.gp0_mode = "ImageLoad"]

gp0_image_store(w) ==
    IF ~CanIndex(w, 2) THEN panic(w) ELSE w

gp0_draw_mode(w) ==
    IF ~CanIndex(w, 0) THEN panic(w)
    ELSE LET val == Cmd(w, 0)
             g1  == [w.gpu EXCEPT !.page_base_x = Bits(val, 0, 4),
                                  !.page_base_y = Bits(val, 4, 1),
                                  !.semi_transparency = Bits(val, 5, 2)]
         IN  IF Bits(val, 7, 2) = 3
             THEN panic([w EXCEPT !.gpu = g1])
             ELSE [w EXCEPT !.gpu =
                     [g1 EXCEPT
                        !.texture_depth = CASE Bits(val, 7, 2) = 0 -> "T4Bit"
                                            [] Bits(val, 7, 2) = 1 -> "T8Bit"
                                            [] Bits(val, 7, 2) = 2 -> "T15Bit",
                        !.dithering = Bits(val, 9, 1) # 0,
                        !.draw_to_display = Bits(val, 10, 1) # 0,
                        !.texture_disable = Bits(val, 11, 1) # 0,
                        !.rectangle_texture_x_flip = Bits(val, 12, 1) # 0,
                        !.rectangle_texture_y_flip = Bits(val, 13, 1) # 0]]

gp0_texture_window(w) ==
    IF ~CanIndex(w, 0) THEN panic(w)
    ELSE LET val == Cmd(w, 0)
         IN  [w EXCEPT !.gpu.texture_window_x_mask = Bits(val, 0, 5),
                       !.gpu.texture_window_y_mask = Bits(val, 5, 5),
                       !.gpu.texture_window_x_offset = Bits(val, 10, 5),
                       !.gpu.texture_window_y_offset = Bits(val, 15, 5)]

gp0_drawing_area_top_left(w) ==
    IF ~CanIndex(w, 0) THEN panic(w)
    ELSE LET val == Cmd(w, 0)
         IN  [w EXCEPT !.gpu.drawing_area_top = Bits(val, 10, 10),
                       !.gpu.drawing_area_left = Bits(val, 0, 10)]

gp0_drawing_area_bottom_right(w) ==
    IF ~CanIndex(w, 0) THEN panic(w)
    ELSE LET val == Cmd(w, 0)
         IN  [w EXCEPT !.gpu.drawing_area_bottom = Bits(val, 10, 10),
                       !.gpu.drawing_area_right = Bits(val, 0, 10)]

gp0_drawing_offset(w) ==
    IF ~CanIndex(w, 0) THEN panic(w)
    ELSE LET val == Cmd(w, 0)
             \* ((x << 5) as i16) >> 5: sign extension from 11 bits
             x   == SignExtend11(Bits(val, 0, 11))
             y   == SignExtend11(Bits(val, 11, 11))
         IN  Renderer_set_draw_offset([w EXCEPT !.gpu.drawing_offset = <<x, y>>], x, y)

gp0_mask_bit_setting(w) ==
    IF ~CanIndex(w, 0) THEN panic(w)
    ELSE LET val == Cmd(w, 0)
         IN  [w EXCEPT !.gpu.force_set_mask_bit = Bits(val, 0, 1) # 0,
                       !.gpu.preserve_masked_pixels = Bits(val, 1, 1) # 0]

-----------------------------------------------------------------------------
(* GP0 dispatch *)

\* The opcode table of gp0: [len, method], len = 0 for an unhandled opcode.
gp0_opcode(opcode) ==
    CASE opcode = 0   -> [len |-> 1, method |-> "gp0_nop"]
      [] opcode = 1   -> [len |-> 1, method |-> "gp0_clear_cache"]
      [] opcode = 2   -> [len |-> 3, method |-> "gp0_fill_rect"]
      [] opcode = 32  -> [len |-> 4, method |-> "gp0_triangle_mono_opaque"]
      [] opcode = 40  -> [len |-> 5, method |-> "gp0_quad_mono_opaque"]
      [] opcode = 44  -> [len |-> 9, method |-> "gp0_quad_texture_blend_opaque"]
      [] opcode = 47  -> [len |-> 9, method |-> "gp0_quad_texture_blend_opaque"]
      [] opcode = 45  -> [len |-> 9, method |-> "gp0_quad_texture_raw_opaque"]
      [] opcode = 48  -> [len |-> 6, method |-> "gp0_triangle_shaded_opaque"]
      [] opcode = 56  -> [len |-> 8, method |-> "gp0_quad_shaded_opaque"]
      [] opcode = 96  -> [len |-> 3, method |-> "gp0_rect_opaque"]
      [] opcode = 100 -> [len |-> 4, method |-> "gp0_rect_texture_blend_opaque"]
      [] opcode = 101 -> [len |-> 4, method |-> "gp0_rect_texture_raw_opaque"]
      [] opcode = 160 -> [len |-> 3, method |-> "gp0_image_load"]
      [] opcode = 192 -> [len |-> 3, method |-> "gp0_image_store"]
      [] opcode = 225 -> [len |-> 1, method |-> "gp0_draw_mode"]
      [] opcode = 226 -> [len |-> 1, method |-> "gp0_texture_window"]
      [] opcode = 227 -> [len |-> 1, method |-> "gp0_drawing_area_top_left"]
      [] opcode = 228 -> [len |-> 1, method |-> "gp0_drawing_area_bottom_right"]
      [] opcode = 229 -> [len |-> 1, method |-> "gp0_drawing_offset"]
      [] opcode = 230 -> [len |-> 1, method |-> "gp0_mask_bit_setting"]
      [] OTHER        -> [len |-> 0, method |-> "panic"]

\* (self.gp0_command_method)(self); obs.handlers notes which method ran.
gp0_command_method(w) ==
    LET m  == w.gpu.gp0_command_method
        w1 == [w EXCEPT !.obs.handlers = Append(@, m)]
    IN  CASE m = "gp0_nop"                       -> gp0_nop(w1)
          [] m = "gp0_clear_cache"               -> gp0_clear_cache(w1)
          [] m = "gp0_fill_rect"                 -> gp0_fill_rect(w1)
          [] m = "gp0_triangle_mono_opaque"      -> gp0_triangle_mono_opaque(w1)
          [] m = "gp0_quad_mono_opaque"          -> gp0_quad_mono_opaque(w1)
          [] m = "gp0_quad_texture_blend_opaque" -> gp0_quad_texture_blend_opaque(w1)
          [] m = "gp0_quad_texture_raw_opaque"   -> gp0_quad_texture_raw_opaque(w1)
          [] m = "gp0_triangle_shaded_opaque"    -> gp0_triangle_shaded_opaque(w1)
          [] m = "gp0_quad_shaded_opaque"        -> gp0_quad_shaded_opaque(w1)
          [] m = "gp0_rect_opaque"               -> gp0_rect_opaque(w1)
          [] m = "gp0_rect_texture_blend_opaque" -> gp0_rect_texture_blend_opaque(w1)
          [] m = "gp0_rect_texture_raw_opaque"   -> gp0_rect_texture_raw_opaque(w1)
          [] m = "gp0_image_load"                -> gp0_image_load(w1)
          [] m = "gp0_image_store"               -> gp0_image_store(w1)
          [] m = "gp0_draw_mode"                 -> gp0_draw_mode(w1)
          [] m = "gp0_texture_window"            -> gp0_texture_window(w1)
          [] m = "gp0_drawing_area_top_left"     -> gp0_drawing_area_top_left(w1)
          [] m = "gp0_drawing_area_bottom_right" -> gp0_drawing_area_bottom_right(w1)
          [] m = "gp0_drawing_offset"            -> gp0_drawing_offset(w1)
          [] m = "gp0_mask_bit_setting"          -> gp0_mask_bit_setting(w1)

gp0(w, val) ==
    IF w.panicked THEN w
    ELSE
    LET start == w.gpu.gp0_words_remaining = 0
        entry == gp0_opcode(Top(val))
    IN  IF start /\ entry.len = 0
        THEN panic(w)
        ELSE
        LET g1 == IF start
                  THEN [w.gpu EXCEPT !.gp0_words_remaining = entry.len,
                                     !.gp0_command_method = entry.method,
                                     !.gp0_command = CommandBuffer_clear(@)]
                  ELSE w.gpu
            g2 == [g1 EXCEPT !.gp0_words_remaining = @ - 1]
            w2 == [w EXCEPT !.gpu = g2, !.obs.decoded = start]
        IN  IF g2.gp0_mode = "Command"
            THEN LET w3 == CommandBuffer_push_word(w2, val)
                 IN  IF w3.panicked THEN w3
                     ELSE IF g2.gp0_words_remaining = 0
                     THEN gp0_command_method(w3)
                     ELSE w3
            ELSE IF g2.gp0_words_remaining = 0
                 THEN [w2 EXCEPT !.gpu.gp0_mode = "Command"]
                 ELSE w2

-----------------------------------------------------------------------------
(* GP1 commands *)

HorizontalRes_from_fields(hr1, hr2) == (hr2 % 2) + (hr1 % 4) * 2

\* Faulty variant of gp1_reset_command_buffer: gp0_mode is left as it is.
gp1_reset_command_buffer_keeps_mode(w) ==
    [w EXCEPT !.gpu.gp0_command = CommandBuffer_clear(@),
              !.gpu.gp0_words_remaining = 0]

\* Faulty variant of gp1_reset_command_buffer: gp0_words_remaining is left
\* as it is.
gp1_reset_command_buffer_keeps_count(w) ==
    [w EXCEPT !.gpu.gp0_command = CommandBuffer_clear(@),
              !.gpu.gp0_mode = "Command"]

gp1_reset_command_buffer(w) ==
    [w EXCEPT !.gpu.gp0_command = CommandBuffer_clear(@),
              !.gpu.gp0_words_remaining = 0,
              !.gpu.gp0_mode = "Command"]

\* Faulty variant of gp1_acknowledge_irq: the VBlank flag of the timing
\* cursor is cleared as well.
gp1_acknowledge_irq_clears_vblank(w) ==
    [w EXCEPT !.gpu.gp0_interrupt = FALSE, !.gpu.vblank_interrupt = FALSE]

gp1_acknowledge_irq(w) == [w EXCEPT !.gpu.gp0_interrupt = FALSE]

\* Faulty variant of gp1_reset: display_line and display_line_tick are left
\* as they are.
gp1_reset_keeps_cursor(w) ==
    LET g1 == [w.gpu EXCEPT
                 !.page_base_x = 0,
                 !.page_base_y = 0,
                 !.semi_transparency = 0,
                 !.texture_depth = "T4Bit",
                 !.texture_window_x_mask = 0,
                 !.texture_window_y_mask = 0,
                 !.texture_window_x_offset = 0,
                 !.texture_window_y_offset = 0,
                 !.dithering = FALSE,
                 !.draw_to_display = FALSE,
                 !.texture_disable = FALSE,
                 !.rectangle_texture_x_flip = FALSE,
                 !.rectangle_texture_y_flip = FALSE,
                 !.drawing_area_left = 0,
                 !.drawing_area_top = 0,
                 !.drawing_area_right = 0,
                 !.drawing_area_bottom = 0,
                 !.force_set_mask_bit = FALSE,
                 !.preserve_masked_pixels = FALSE,
                 !.dma_direction = "Off",
                 !.display_disabled = TRUE,
                 !.display_vram_x_start = 0,
                 !.display_vram_y_start = 0,
                 !.hres = HorizontalRes_from_fields(0, 0),
                 !.vres = "Y240Lines",
                 !.field = "Top",
                 !.vmode = "Ntsc",
                 !.interlaced = TRUE,
                 !.display_horiz_start = 512,
                 !.display_horiz_end = 3072,
                 !.display_line_start = 16,
                 !.display_line_end = 256,
                 !.display_depth = "D15Bits"]
        w1 == Renderer_set_draw_offset([w EXCEPT !.gpu = g1], 0, 0)
    IN  sync(gp1_acknowledge_irq(gp1_reset_command_buffer(w1)))

gp1_reset(w) ==
    LET g1 == [w.gpu EXCEPT
                 !.page_base_x = 0,
                 !.page_base_y = 0,
                 !.semi_transparency = 0,
                 !.texture_depth = "T4Bit",
                 !.texture_window_x_mask = 0,
                 !.texture_window_y_mask = 0,
                 !.texture_window_x_offset = 0,
                 !.texture_window_y_offset = 0,
                 !.dithering = FALSE,
                 !.draw_to_display = FALSE,
                 !.texture_disable = FALSE,
                 !.rectangle_texture_x_flip = FALSE,
                 !.rectangle_texture_y_flip = FALSE,
                 !.drawing_area_left = 0,
                 !.drawing_area_top = 0,
                 !.drawing_area_right = 0,
                 !.drawing_area_bottom = 0,
                 !.force_set_mask_bit = FALSE,
                 !.preserve_masked_pixels = FALSE,
                 !.dma_direction = "Off",
                 !.display_disabled = TRUE,
                 !.display_vram_x_start = 0,
                 !.display_vram_y_start = 0,
                 !.hres = HorizontalRes_from_fields(0, 0),
                 !.vres = "Y240Lines",
                 !.field = "Top",
                 !.vmode = "Ntsc",
                 !.interlaced = TRUE,
                 !.display_horiz_start = 512,
                 !.display_horiz_end = 3072,
                 !.display_line_start = 16,
                 !.display_line_end = 256,
                 !.display_depth = "D15Bits",
                 !.display_line = 0,
                 !.display_line_tick = 0]
        w1 == Renderer_set_draw_offset([w EXCEPT !.gpu = g1], 0, 0)
    IN  sync(gp1_acknowledge_irq(gp1_reset_command_buffer(w1)))

gp1_display_enable(w, val) ==
    [w EXCEPT !.gpu.display_disabled = Bits(val, 0, 1) # 0]

gp1_dma_direction(w, val) ==
    [w EXCEPT !.gpu.dma_direction =
        CASE Bits(val, 0, 2) = 0 -> "Off"
          [] Bits(val, 0, 2) = 1 -> "Fifo"
          [] Bits(val, 0, 2) = 2 -> "CpuToGp0"
          [] Bits(val, 0, 2) = 3 -> "VRamToCpu"]

gp1_display_vram_start(w, val) ==
    [w EXCEPT !.gpu.display_vram_x_start = Bits(val, 1, 9) * 2,
              !.gpu.display_vram_y_start = Bits(val, 10, 9)]

gp1_display_horizontal_range(w, val) ==
    [w EXCEPT !.gpu.display_horiz_start = Bits(val, 0, 12),
              !.gpu.display_horiz_end = Bits(val, 12, 12)]

\* Faulty variant of gp1_display_vertical_range: the final sync is missing.
gp1_display_vertical_range_no_sync(w, val) ==
    [w EXCEPT !.gpu.display_line_start = Bits(val, 0, 10),
              !.gpu.display_line_end = Bits(val, 10, 10)]

gp1_display_vertical_range(w, val) ==
    sync([w EXCEPT !.gpu.display_line_start = Bits(val, 0, 10),
                   !.gpu.display_line_end = Bits(val, 10, 10)])

\* Faulty variant of gp1_get_info: the y offset is packed from bit 10.
gp1_get_info_offset_from_bit_10(w, val) ==
    LET g  == w.gpu
        n  == Bits(val, 0, 4)
        x  == g.drawing_offset[1] % 2048
        y  == g.drawing_offset[2] % 2048
    IN  IF n \notin {3, 4, 5, 7}
        THEN panic(w)
        ELSE [w EXCEPT !.gpu.read_word =
                CASE n = 3 -> W(0, g.drawing_area_left + g.drawing_area_top * 1024)
                  [] n = 4 -> W(0, g.drawing_area_right + g.drawing_area_bottom * 1024)
                  [] n = 5 -> W(0, (x + y * 1024) % 4194304)
                  [] n = 7 -> W(0, 2)]

gp1_get_info(w, val) ==
    LET g  == w.gpu
        n  == Bits(val, 0, 4)
        \* (x as u32) & 0x7ff of an i16
        x  == g.drawing_offset[1] % 2048
        y  == g.drawing_offset[2] % 2048
    IN  IF n \notin {3, 4, 5, 7}
        THEN panic(w)
        ELSE [w EXCEPT !.gpu.read_word =
                CASE n = 3 -> W(0, g.drawing_area_left + g.drawing_area_top * 1024)
                  [] n = 4 -> W(0, g.drawing_area_right + g.drawing_area_bottom * 1024)
                  [] n = 5 -> W(0, x + y * 2048)
                  [] n = 7 -> W(0, 2)]

\* Faulty variant of gp1_display_mode: the final sync is missing.
gp1_display_mode_no_sync(w, val) ==
    LET g1 == [w.gpu EXCEPT
                 !.hres = HorizontalRes_from_fields(Bits(val, 0, 2), Bits(val, 6, 1)),
                 !.vres = IF Bits(val, 2, 1) # 0 THEN "Y480Lines" ELSE "Y240Lines",
                 !.vmode = IF Bits(val, 3, 1) # 0 THEN "Pal" ELSE "Ntsc",
                 !.display_depth = IF Bits(val, 4, 1) # 0 THEN "D15Bits" ELSE "D24Bits",
                 !.interlaced = Bits(val, 5, 1) # 0,
                 !.field = "Top"]
        w1 == [w EXCEPT !.gpu = g1]
    IN  IF Bits(val, 7, 1) # 0 THEN panic(w1) ELSE w1

\* Faulty variant of gp1_display_mode: field is left as it is.
gp1_display_mode_keeps_field(w, val) ==
    LET g1 == [w.gpu EXCEPT
                 !.hres = HorizontalRes_from_fields(Bits(val, 0, 2), Bits(val, 6, 1)),
                 !.vres = IF Bits(val, 2, 1) # 0 THEN "Y480Lines" ELSE "Y240Lines",
                 !.vmode = IF Bits(val, 3, 1) # 0 THEN "Pal" ELSE "Ntsc",
                 !.display_depth = IF Bits(val, 4, 1) # 0 THEN "D15Bits" ELSE "D24Bits",
                 !.interlaced = Bits(val, 5, 1) # 0]
        w1 == [w EXCEPT !.gpu = g1]
    IN  IF Bits(val, 7, 1) # 0 THEN panic(w1) ELSE sync(w1)

gp1_display_mode(w, val) ==
    LET g1 == [w.gpu EXCEPT
                 !.hres = HorizontalRes_from_fields(Bits(val, 0, 2), Bits(val, 6, 1)),
                 !.vres = IF Bits(val, 2, 1) # 0 THEN "Y480Lines" ELSE "Y240Lines",
                 !.vmode = IF Bits(val, 3, 1) # 0 THEN "Pal" ELSE "Ntsc",
                 !.display_depth = IF Bits(val, 4, 1) # 0 THEN "D15Bits" ELSE "D24Bits",
                 !.interlaced = Bits(val, 5, 1) # 0,
                 !.field = "Top"]
        w1 == [w EXCEPT !.gpu = g1]
    IN  IF Bits(val, 7, 1) # 0 THEN panic(w1) ELSE sync(w1)

\* timers.video_timings_changed(tk, irq_state, self): the timer subsystem is
\* outside these sources and only reads the GPU; obs.notified notes how many
\* sync calls of this operation came before the notification.
Timers_video_timings_changed(w) ==
    IF w.panicked THEN w
    ELSE [w EXCEPT !.obs.notified = Append(@, Len(w.obs.syncs))]

gp1(w, val) ==
    IF w.panicked THEN w
    ELSE
    LET opcode == Top(val)
    IN  CASE opcode = 0  -> Timers_video_timings_changed(gp1_reset(w))
          [] opcode = 1  -> gp1_reset_command_buffer(w)
          [] opcode = 2  -> gp1_acknowledge_irq(w)
          [] opcode = 3  -> gp1_display_enable(w, val)
          [] opcode = 4  -> gp1_dma_direction(w, val)
          [] opcode = 5  -> gp1_display_vram_start(w, val)
          [] opcode = 6  -> gp1_display_horizontal_range(w, val)
          [] opcode = 7  -> gp1_display_vertical_range(w, val)
          [] opcode = 16 -> gp1_get_info(w, val)
          [] opcode = 8  -> Timers_video_timings_changed(gp1_display_mode(w, val))
          [] OTHER       -> panic(w)

-----------------------------------------------------------------------------
(* load and store (word width) *)

\* Faulty variant of load: the register is read without the sync before it.
load_without_sync(w, offset) ==
    [w EXCEPT !.obs.result = IF offset = 0 THEN read(w.gpu) ELSE status(w.gpu)]

load(w, offset) ==
    LET w1 == sync(w)
    IN  IF w1.panicked THEN w1
        ELSE [w1 EXCEPT !.obs.result = IF offset = 0 THEN read(w1.gpu)
                                       ELSE status(w1.gpu)]

\* The fields of the GPU other than the GP0 word counter and mode.
Registers(g) ==
    [f \in DOMAIN g \ {"gp0_words_remaining", "gp0_mode"} |-> g[f]]

store(w, offset, val) ==
    LET w1 == sync(w)
        w2 == IF offset = 0 THEN gp0(w1, val) ELSE gp1(w1, val)
    IN  [w2 EXCEPT !.obs.regs_changed = Registers(w2.gpu) # Registers(w1.gpu)]

-----------------------------------------------------------------------------
(* History variables: the protocol as the bus sees it, counted without     *)
(* the GPU's own counters.                                                 *)

\* ((w * h + 1) & ~1) / 2 for the size word of an image load
ImageWords(res) == (((Lo16(res) * Hi16(res) + 1) \div 2) * 2) \div 2

NoPacket == [need |-> 0, got |-> 0, method |-> "none", words |-> <<>>]

InitHist ==
    [ seen_vblank       |-> in_vblank(Gpu_new("Ntsc")), \* in_vblank() when the previous operation ended, or at construction
      pkt               |-> NoPacket, \* the GP0 packet being written
      img_left          |-> 0,        \* image words still owed after GP0(0xA0)
      event             |-> "none",   \* the latest GP0 word: "param", "complete", "data", "unhandled"
      after_image       |-> FALSE,    \* an image load has ended and no GP0 word followed yet
      first_after_image |-> FALSE,    \* the latest GP0 word was the first after an image load
      after_reset       |-> FALSE,    \* GP1(0x01) was issued and no GP0 word followed yet
      first_after_reset |-> FALSE,    \* the latest GP0 word was the first after GP1(0x01)
      interrupted       |-> "none",   \* what that GP1(0x01) cut short: a method, or "image data"
      ticks             |-> 0,        \* GPU ticks passed since construction (kept by SyncAfter)
      frame             |-> 0,        \* ticks \div (lines_per_frame * ticks_per_line)
      asserts           |-> 0,        \* assert(VBlank) calls during the current frame
      displays          |-> 0,        \* renderer.display() calls during the current frame
      frames_ok         |-> TRUE ]    \* every frame that has ended saw one of each

\* in_vblank() as sync last left it.
SeenVblank ==
    IF obs.syncs # <<>> THEN obs.syncs[Len(obs.syncs)].in_vblank ELSE hist.seen_vblank

\* The history after an operation that carries no GP0 word.
HistIdle ==
    [hist EXCEPT !.seen_vblank = SeenVblank,
                 !.event = "none",
                 !.first_after_image = FALSE,
                 !.first_after_reset = FALSE]

\* The history after a GP0 word `val` reached gp0.
HistAfterGp0(val) ==
    LET base == [hist EXCEPT !.seen_vblank = SeenVblank,
                             !.after_image = FALSE,
                             !.first_after_image = hist.after_image,
                             !.after_reset = FALSE,
                             !.first_after_reset = hist.after_reset,
                             !.interrupted = IF hist.after_reset THEN @ ELSE "none"]
    IN  IF hist.img_left > 0
        THEN [base EXCEPT !.img_left = @ - 1,
                          !.event = "data",
                          !.after_image = (hist.img_left = 1)]
        ELSE
        LET p    == IF hist.pkt.got < hist.pkt.need
                    THEN [hist.pkt EXCEPT !.got = @ + 1, !.words = Append(@, val)]
                    ELSE [need   |-> gp0_opcode(Top(val)).len,
                          got    |-> 1,
                          method |-> gp0_opcode(Top(val)).method,
                          words  |-> <<val>>]
            done == p.got = p.need
            img  == done /\ p.method = "gp0_image_load"
        IN  [base EXCEPT !.pkt = p,
                         !.event = IF p.need = 0 THEN "unhandled"
                                   ELSE IF done THEN "complete" ELSE "param",
                         !.img_left = IF img THEN ImageWords(p.words[3]) ELSE 0,
                         !.after_image = img /\ ImageWords(p.words[3]) = 0]

\* The history after a GP1 word `val` reached gp1.
HistAfterGp1(val) ==
    IF Top(val) \in {0, 1}
    THEN [HistIdle EXCEPT !.pkt = NoPacket,
                          !.img_left = 0,
                          !.after_image = FALSE,
                          !.after_reset = (Top(val) = 1),
                          !.interrupted =
                              IF Top(val) # 1 THEN "none"
                              ELSE IF hist.img_left > 0 THEN "image data"
                              ELSE IF hist.pkt.got < hist.pkt.need THEN hist.pkt.method
                              ELSE "none"]
    ELSE HistIdle

-----------------------------------------------------------------------------
(* Actions *)

World(op, val) ==
    [gpu |-> gpu, tk |-> tk, panicked |-> panicked, obs |-> [NoObs(op) EXCEPT !.val = val]]

Commit(w) ==
    \E r \in {w} :
        /\ gpu' = r.gpu
        /\ tk' = r.tk
        /\ panicked' = r.panicked
        /\ obs' = r.obs
        /\ UNCHANGED overflow_checks

\* Emulated time passes: d more CPU cycles since the GPU was last synced.
Advance(d) ==
    /\ ~panicked
    /\ budget.advances < MaxAdvances
    /\ tk' = [tk EXCEPT !.elapsed = @ + d]
    /\ budget' = [budget EXCEPT !.advances = @ + 1]
    /\ UNCHANGED <<gpu, panicked, overflow_checks, obs, hist>>

\* The timekeeper's deadline handler calls gpu.sync directly.
SyncCall ==
    /\ ~panicked
    /\ Commit(sync(World("sync", W(0, 0))))
    /\ hist' = HistIdle
    /\ UNCHANGED budget

Load(offset) ==
    /\ ~panicked
    /\ Commit(load(World("load", W(0, 0)), offset))
    /\ hist' = HistIdle
    /\ UNCHANGED budget

StoreGp0(val) ==
    /\ ~panicked
    /\ Commit(store(World("gp0", val), 0, val))
    /\ hist' = IF obs'.syncs[1].registered THEN HistAfterGp0(val) ELSE HistIdle
    /\ UNCHANGED budget

StoreGp1(val) ==
    /\ ~panicked
    /\ budget.control < MaxControlStores
    /\ Commit(store(World("gp1", val), 4, val))
    /\ hist' = IF obs'.syncs[1].registered THEN HistAfterGp1(val) ELSE HistIdle
    /\ budget' = [budget EXCEPT !.control = @ + 1]

-----------------------------------------------------------------------------
(* Inputs *)

\* CPU cycles after which `ticks` GPU ticks have passed from phase 0.
CyclesFor(ticks) == CeilDivQ16(ticks, 0, gpu_to_cpu_clock_ratio(gpu))

\* Most of a line, one line, 262 lines, one NTSC frame.
CycleInputs ==
    { CyclesFor(3404), CyclesFor(3412), CyclesFor(262 * 3412), CyclesFor(263 * 3412) }

\* GP1(0x00); GP1(0x07) with start 0 / end 0x100 and start 0x100 / end 0x10;
\* GP1(0x08) NTSC, PAL, NTSC interlaced, and with the unsupported bit 7.
TimingControlWords ==
    { W(0, 0),
      W(7, 0 + 256 * 1024), W(7, 256 + 16 * 1024),
      W(8, 0), W(8, 8), W(8, 32), W(8, 128) }

\* The opcodes of the GP0 table.
Gp0Table ==
    {0, 1, 2, 32, 40, 44, 45, 47, 48, 56, 96, 100, 101, 160, 192,
     225, 226, 227, 228, 229, 230}

\* Every table opcode with a zero argument; draw mode with texture depth 3;
\* an opcode outside the table.
OpcodeWords ==
    {W(op, 0) : op \in Gp0Table} \cup {W(225, 384), W(3, 0)}

\* Sizes 0x0, 1x1 and 3x1
SizeWords == {W(0, 0), W(0, 65536 + 1), W(0, 65536 + 3)}

\* A zero word and the position (-1, 1)
ParamWords == {W(0, 0), W(0, 65536 + 2047)}

\* An image word that reads as GP0(0xE3) with left = 5
DataWords == {W(227, 5)}

\* The words a driver writes next: image data while an image load is owed
\* words, parameters inside a packet, an opcode between packets.
Gp0Inputs ==
    IF hist.img_left > 0 THEN DataWords
    ELSE IF hist.pkt.got < hist.pkt.need
    THEN IF /\ hist.pkt.got = 2
            /\ hist.pkt.method \in {"gp0_image_load", "gp0_image_store", "gp0_fill_rect"}
         THEN SizeWords
         ELSE IF hist.pkt.got <= MaxVariedParams THEN ParamWords ELSE {W(0, 0)}
    ELSE OpcodeWords

\* GP1(0x01), GP1(0x00)
Gp0ControlWords == {W(1, 0), W(0, 0)}

-----------------------------------------------------------------------------
(* Specification of the timing cursor *)

Init ==
    /\ \E hardware \in {"Ntsc", "Pal"} : gpu = Gpu_new(hardware)
    /\ tk = [elapsed |-> 0, next_sync_delta |-> U64(0)]
    /\ panicked = FALSE
    /\ overflow_checks \in BOOLEAN
    /\ obs = NoObs("new")
    /\ hist = InitHist
    /\ budget = [advances |-> 0, control |-> 0]

Next ==
    \/ \E d \in CycleInputs : Advance(d)
    \/ SyncCall
    \/ Load(4)
    \/ \E val \in TimingControlWords : StoreGp1(val)

Spec == Init /\ [][Next]_vars

(* Specification of the GP0 command stream.  No time passes here, so the    *)
(* clock ratio of the hardware is never used and one hardware stands for    *)
(* both.                                                                    *)

InitGp0 == Init /\ gpu.hardware = "Ntsc"

NextGp0 ==
    \/ \E val \in Gp0Inputs : StoreGp0(val)
    \/ \E val \in Gp0ControlWords : StoreGp1(val)
    \/ Load(4)

SpecGp0 == InitGp0 /\ [][NextGp0]_vars

(* Specification of the deadline-driven run: emulated time advances and   *)
(* sync is called c cycles after the previous sync, never later than the    *)
(* deadline that sync registered; now and then it is called early.          *)

\* GPU ticks that c more CPU cycles add (line 245-252 of sync).
TicksAfter(c) ==
    LET m == MulRatio(c, gpu_to_cpu_clock_ratio(gpu))
    IN  m.int + (gpu.gpu_clock_phase + m.frac) \div 65536

FrameTicks == vmode_timings(gpu).lines_per_frame * vmode_timings(gpu).ticks_per_line

\* The frame history after a sync that advanced `adv` ticks and made the
\* calls of `report`.
HistAfterTicks(adv, report) ==
    LET ticks == hist.ticks + adv
        frame == ticks \div FrameTicks
    IN  IF frame > hist.frame
        THEN [HistIdle EXCEPT !.ticks = ticks,
                              !.frame = frame,
                              !.frames_ok = @ /\ hist.asserts = 1 /\ hist.displays = 1,
                              !.asserts = report.asserted,
                              !.displays = report.displayed]
        ELSE [HistIdle EXCEPT !.ticks = ticks,
                              !.asserts = @ + report.asserted,
                              !.displays = @ + report.displayed]

SyncAfter(c) ==
    /\ ~panicked
    /\ hist.frame < MaxFrames
    /\ tk.next_sync_delta.hi = 0
    /\ c <= tk.next_sync_delta.lo
    /\ Commit(sync([World("sync", W(0, 0)) EXCEPT !.tk.elapsed = c]))
    /\ hist' = HistAfterTicks(TicksAfter(c), obs'.syncs[1])
    /\ UNCHANGED budget

SyncAtDeadline == SyncAfter(tk.next_sync_delta.lo)

\* A sync before the deadline: a load or store of the CPU in between.
SyncEarly ==
    /\ budget.advances < MaxAdvances
    /\ \E c \in {1, tk.next_sync_delta.lo \div 2} :
           /\ c < tk.next_sync_delta.lo
           /\ hist.frame < MaxFrames
           /\ ~panicked
           /\ Commit(sync([World("sync", W(0, 0)) EXCEPT !.tk.elapsed = c]))
           /\ hist' = HistAfterTicks(TicksAfter(c), obs'.syncs[1])
    /\ budget' = [budget EXCEPT !.advances = @ + 1]

NextDeadline == SyncAtDeadline \/ SyncEarly

SpecDeadline == Init /\ [][NextDeadline]_vars /\ WF_vars(SyncAtDeadline)

(* Specification of the registers: the drawing and display registers are   *)
(* written through GP0 and GP1, time passes, and the status is read.        *)

\* A store of `val` to GP0 (offset 0) or GP1 (offset 4).
StoreRegister(offset, val) ==
    /\ ~panicked
    /\ budget.control < MaxRegisterStores
    /\ Commit(store(World(IF offset = 0 THEN "gp0" ELSE "gp1", val), offset, val))
    /\ hist' = IF ~obs'.syncs[1].registered THEN HistIdle
               ELSE IF offset = 0 THEN HistAfterGp0(val) ELSE HistAfterGp1(val)
    /\ budget' = [budget EXCEPT !.control = @ + 1]

\* GP0(0xE1) with every field at its highest value (texture depth 2);
\* GP0(0xE2) with masks 0x1f and offsets 0x1f; GP0(0xE3) left 5, top 3;
\* GP0(0xE5) x = -1, y = 1; GP0(0xE6) both bits.
RegisterGp0Words ==
    { W(225, 16255), W(226, 1048575), W(227, 5 + 3 * 1024),
      W(229, 2047 + 1 * 2048), W(230, 3) }

\* GP1(0x00); GP1(0x03) display on; GP1(0x04) Fifo, CpuToGp0, VRamToCpu;
\* GP1(0x05) x 2, y 1; GP1(0x08) progressive NTSC and interlaced PAL 480
\* lines with both resolution fields set.
RegisterGp1Words ==
    { W(0, 0), W(3, 0), W(4, 1), W(4, 2), W(4, 3), W(5, 2 + 1 * 1024),
      W(8, 0), W(8, 127) }

\* 17 NTSC lines (into the displayed lines) and one NTSC frame.
RegisterCycleInputs == { CyclesFor(17 * 3412), CyclesFor(263 * 3412) }

NextRegs ==
    \/ \E val \in RegisterGp0Words : StoreRegister(0, val)
    \/ \E val \in RegisterGp1Words : StoreRegister(4, val)
    \/ \E d \in RegisterCycleInputs : Advance(d)
    \/ Load(4)

SpecRegs == InitGp0 /\ [][NextRegs]_vars

-----------------------------------------------------------------------------
(* Properties *)

ClaimedLinesPerFrame(vmode) == IF vmode = "Ntsc" THEN 263 ELSE 314

ClaimedTicksPerLine(vmode) == IF vmode = "Ntsc" THEN 3412 ELSE 3404

Reports == {obs.syncs[i] : i \in 1..Len(obs.syncs)}

\* C1: after every call of sync, whoever made it and whatever time had
\* passed, the line cursor lies within the frame:
\* 0 <= display_line < 263 in NTSC mode and < 314 in PAL mode.
C1_AsClaimed ==
    \A r \in Reports : r.display_line \in 0..(ClaimedLinesPerFrame(r.vmode) - 1)

\* C2: after every call of sync the tick cursor lies within the line,
\* 0 <= display_line_tick < 3412 in NTSC mode and < 3404 in PAL mode, and so
\* it does when a load, a store or a direct sync has ended -- also a
\* GP1(0x08) store that switched from NTSC to PAL with ticks 3404..3411.
C2_TickWithinLine ==
    /\ \A r \in Reports :
           r.display_line_tick \in 0..(ClaimedTicksPerLine(r.vmode) - 1)
    /\ (obs.op # "new" /\ ~panicked) =>
           gpu.display_line_tick \in 0..(ClaimedTicksPerLine(gpu.vmode) - 1)

\* A GP1(0x08) store that found the tick cursor at 3404..3411 in NTSC mode
\* and left PAL mode.
C2_Witness ==
    /\ obs.op = "gp1" /\ Top(obs.val) = 8 /\ ~panicked
    /\ Len(obs.syncs) = 2
    /\ obs.syncs[1].vmode = "Ntsc"
    /\ obs.syncs[2].vmode = "Pal"
    /\ obs.syncs[2].tick_before \in 3404..3411
    /\ gpu.vmode = "Pal"

\* The protocol position is between packets: every declared word of the
\* latest packet has been written and no image word is owed.
BetweenCommands == hist.pkt.got >= hist.pkt.need /\ hist.img_left = 0

\* C3: in every reachable state gp0_words_remaining is 0 exactly when the
\* mode is Command and the stream is between commands (the next GP0 word is
\* an opcode); no state has gp0_words_remaining = 0 in ImageLoad mode.
C3_AsClaimed ==
    /\ (gpu.gp0_words_remaining = 0) <=> (gpu.gp0_mode = "Command" /\ BetweenCommands)
    /\ ~(gpu.gp0_words_remaining = 0 /\ gpu.gp0_mode = "ImageLoad")

\* C4: a packet of a table opcode begun when gp0_words_remaining was 0 runs
\* its handler exactly once, at its last declared word and at no earlier
\* word, and leaves gp0_words_remaining = 0 and the mode Command.
C4_AsClaimed ==
    /\ (obs.op = "gp0" /\ hist.event = "param") => obs.handlers = <<>>
    /\ (obs.op = "gp0" /\ hist.event = "complete") =>
           /\ obs.handlers = <<hist.pkt.method>>
           /\ gpu.gp0_words_remaining = 0
           /\ gpu.gp0_mode = "Command"

\* C5: after a GP0(0xA0) packet whose third word gives w and h, exactly
\* ((w * h + 1) & ~1) / 2 words are taken in ImageLoad mode, each lowering
\* gp0_words_remaining by one with no decoding, no renderer call and no
\* register change; the word after them is decoded as an opcode in Command
\* mode and its command executed.
C5_AsClaimed ==
    /\ hist.img_left > 0 =>
           gpu.gp0_mode = "ImageLoad" /\ gpu.gp0_words_remaining = hist.img_left
    /\ (obs.op = "gp0" /\ hist.event = "data") =>
           /\ ~obs.decoded
           /\ obs.handlers = <<>>
           /\ obs.draws = <<>>
           /\ ~obs.regs_changed
    /\ hist.after_image =>
           gpu.gp0_mode = "Command" /\ gpu.gp0_words_remaining = 0
    /\ (obs.op = "gp0" /\ hist.first_after_image /\ ~panicked) =>
           /\ obs.decoded
           /\ hist.event = "complete" => obs.handlers = <<hist.pkt.method>>

\* C6: after GP1(0x01), wherever it falls, the mode is Command and
\* gp0_words_remaining is 0, no handler has run, and the next GP0 word is
\* decoded as a new opcode that starts the buffer afresh, so that only the
\* new packet's handler can run.
C6_ResetCommandBuffer ==
    /\ (obs.op = "gp1" /\ Top(obs.val) = 1 /\ ~panicked) => obs.handlers = <<>>
    /\ (hist.after_reset /\ ~panicked) =>
           gpu.gp0_mode = "Command" /\ gpu.gp0_words_remaining = 0
    /\ (obs.op = "gp0" /\ hist.first_after_reset /\ ~panicked) =>
           /\ obs.decoded
           /\ gpu.gp0_command = <<obs.val>>
           /\ obs.handlers \in {<<>>, <<gp0_opcode(Top(obs.val)).method>>}

\* The first GP0 word after a GP1(0x01) that cut an image transfer short
\* has executed as a command.
C6_Witness ==
    /\ obs.op = "gp0" /\ ~panicked
    /\ hist.first_after_reset
    /\ hist.interrupted = "image data"
    /\ obs.handlers # <<>>

\* C7: when a load, a store or a direct sync has ended, vblank_interrupt
\* equals in_vblank() of the current display_line, display_line_start and
\* display_line_end -- also after GP1(0x07), GP1(0x08) and GP1(0x00).
C7_VblankFlagCurrent ==
    (obs.op # "new" /\ ~panicked) => (gpu.vblank_interrupt = in_vblank(gpu))

\* A GP1(0x07) store whose new range moved the current line across the
\* vblank boundary.
C7_Witness ==
    /\ obs.op = "gp1" /\ Top(obs.val) = 7 /\ ~panicked
    /\ Len(obs.syncs) = 2
    /\ obs.syncs[2].was_vblank # obs.syncs[2].in_vblank

\* in_vblank() as the sync before report i of this operation left it.
VblankBefore(i) == IF i = 1 THEN hist.seen_vblank ELSE obs.syncs[i - 1].in_vblank

\* C8: a sync during which in_vblank() goes from false to true asserts
\* VBlank exactly once, and a sync during which it does not asserts nothing.
C8_AsClaimed ==
    \A i \in 1..Len(obs.syncs) :
        obs.syncs[i].asserted =
            IF ~VblankBefore(i) /\ obs.syncs[i].in_vblank THEN 1 ELSE 0

Cursor(g) == <<g.display_line, g.display_line_tick, g.gpu_clock_phase, g.field>>

\* C9: from any state, sync after d1 cycles and again after d2 cycles leaves
\* the same display_line, display_line_tick, gpu_clock_phase and field as
\* one sync after d1 + d2 cycles.
C9_AsClaimed ==
    \A d1, d2 \in CycleInputs :
        Cursor(sync_cursor(sync_cursor(gpu, d1), d2)) = Cursor(sync_cursor(gpu, d1 + d2))

\* gpu_clock_phase + c * ratio >= ticks << 16
Covers(c, phase, ratio, ticks) ==
    LET m == MulRatio(c, ratio)
    IN  m.int + (m.frac + phase) \div 65536 >= ticks

\* C10: the deadline sync registers is the least number c of CPU cycles with
\* gpu_clock_phase + c * ratio >= delta_ticks << 16 for the tick distance
\* delta_ticks of predict_next_sync.  A distance that wrapped below zero is
\* above 2^63 ticks, which the quotient by a ratio above 2^16 never covers.
C10_AsClaimed ==
    \A r \in Reports :
        r.registered =>
            /\ r.delta_ticks >= 0
            /\ r.deadline.hi = 0
            /\ Covers(r.deadline.lo, r.gpu_clock_phase, r.ratio, r.delta_ticks)
            /\ r.deadline.lo > 0 =>
                   ~Covers(r.deadline.lo - 1, r.gpu_clock_phase, r.ratio, r.delta_ticks)

\* C11: the deadline predict_next_sync registers marks the first change of
\* in_vblank(): a sync arriving any number of cycles before it (here none,
\* half of them, all but one) leaves in_vblank() as it is, and a sync
\* arriving exactly at it finds in_vblank() changed.
C11_AsClaimed ==
    (obs.op # "new" /\ ~panicked) =>
        /\ tk.next_sync_delta.hi = 0
        /\ tk.next_sync_delta.lo > 0
        /\ LET d == tk.next_sync_delta.lo
           IN  /\ \A c \in {0, d \div 2, d - 1} :
                      in_vblank(sync_cursor(gpu, c)) = in_vblank(gpu)
               /\ in_vblank(sync_cursor(gpu, d)) # in_vblank(gpu)

\* C12: with the boot vertical range, when sync is never later than the
\* deadline it registered and time keeps advancing, frame after frame goes
\* by (here MaxFrames of them) and each frame sees assert(VBlank) exactly
\* once and renderer.display() exactly once.
C12_AsClaimed ==
    /\ hist.asserts <= 1
    /\ hist.displays <= 1
    /\ hist.frames_ok

\* No cycle has elapsed and no word has been stored since Gpu::new.
Fresh == budget.advances = 0 /\ budget.control = 0 /\ tk.elapsed = 0

\* C13: the status of a freshly constructed NTSC GPU, read before any cycle
\* elapsed, is 0x1C802000: ready bits 26-28, display disabled (bit 23),
\* field Top (bit 13), everything else 0.
C13_BootStatus ==
    (Fresh /\ gpu.hardware = "Ntsc") =>
        /\ status(gpu) = W(28, 8396800)
        /\ obs.op = "load" => obs.result = W(28, 8396800)

C13_Witness ==
    Fresh /\ gpu.hardware = "Ntsc" /\ obs.op = "load" /\ obs.result = W(28, 8396800)

\* The operation just made was a store of GP1(0x00) that returned.
AfterReset == obs.op = "gp1" /\ Top(obs.val) = 0 /\ ~panicked

\* C14: whatever the registers and the cursor were, after a store of
\* GP1(0x00) the status is 0x1CC02000, and a status read made before any
\* cycle elapses returns that word: ready bits 26-28, display disabled,
\* interlaced, field Top, bit 31 clear.
C14_StatusAfterReset ==
    AfterReset =>
        /\ status(gpu) = W(28, 12591104)
        /\ load([World("load", W(0, 0)) EXCEPT !.tk.elapsed = 0], 4).obs.result
               = W(28, 12591104)

\* The reset came in PAL mode while a line of the picture was displayed.
C14_Witness ==
    /\ AfterReset
    /\ obs.syncs[1].vmode = "Pal"
    /\ ~obs.syncs[1].in_vblank
    /\ status(gpu) = W(28, 12591104)

\* C15: after a store of GP1(0x00), whatever came before, the drawing and
\* display registers hold their boot values: texture page, texture window,
\* mask bits, drawing area and drawing offset zero, so that GP1(0x10) with
\* selector 5 stages the word 0, the offset (0, 0) the renderer was handed;
\* DMA direction Off, display range 0x200..0xc00 by 0x10..0x100, field Top,
\* GP0 in Command mode with no word awaited.
C15_AsClaimed ==
    AfterReset =>
        /\ gpu.page_base_x = 0 /\ gpu.page_base_y = 0
        /\ gpu.texture_window_x_mask = 0 /\ gpu.texture_window_y_mask = 0
        /\ gpu.texture_window_x_offset = 0 /\ gpu.texture_window_y_offset = 0
        /\ ~gpu.force_set_mask_bit /\ ~gpu.preserve_masked_pixels
        /\ gpu.drawing_area_left = 0 /\ gpu.drawing_area_top = 0
        /\ gpu.drawing_area_right = 0 /\ gpu.drawing_area_bottom = 0
        /\ gpu.drawing_offset = <<0, 0>>
        /\ gp1_get_info(World("gp1", W(16, 5)), W(16, 5)).gpu.read_word = W(0, 0)
        /\ \E i \in 1..Len(obs.draws) :
               /\ obs.draws[i].call = "set_draw_offset"
               /\ obs.draws[i].x = 0 /\ obs.draws[i].y = 0
        /\ gpu.dma_direction = "Off"
        /\ gpu.display_horiz_start = 512 /\ gpu.display_horiz_end = 3072
        /\ gpu.display_line_start = 16 /\ gpu.display_line_end = 256
        /\ gpu.field = "Top"
        /\ gpu.gp0_mode = "Command"
        /\ gpu.gp0_words_remaining = 0

\* C16: a store of GP1(0x00) or GP1(0x08) that returns has notified the
\* timers once, after the sync that opens the store and before the sync
\* that ends the command: no sync call lies between the change of the
\* registers and Timers::video_timings_changed.
C16_AsClaimed ==
    (obs.op = "gp1" /\ Top(obs.val) \in {0, 8} /\ ~panicked) =>
        /\ Len(obs.syncs) = 2
        /\ obs.notified = <<1>>

\* Bit `n` (24..31) of a word.
HighBit(val, n) == (Top(val) \div (2 ^ (n - 24))) % 2

\* C17: the status word is the packing of the live registers bit for bit:
\* bits 0-13 and 15-24 carry the fields of the status table, bit 14 is 0,
\* bits 26-28 are 1, bits 29-30 carry dma_direction, and bit 25 is 0 for
\* Off, 1 for Fifo, bit 28 for CpuToGp0 and bit 27 for VRamToCpu.
C17_StatusPacking ==
    ~panicked =>
        \A s \in {status(gpu)} :
            /\ Bits(s, 0, 4) = gpu.page_base_x
            /\ Bits(s, 4, 1) = gpu.page_base_y
            /\ Bits(s, 5, 2) = gpu.semi_transparency
            /\ Bits(s, 7, 2) = (CASE gpu.texture_depth = "T4Bit" -> 0
                                  [] gpu.texture_depth = "T8Bit" -> 1
                                  [] gpu.texture_depth = "T15Bit" -> 2)
            /\ (Bits(s, 9, 1) = 1) = gpu.dithering
            /\ (Bits(s, 10, 1) = 1) = gpu.draw_to_display
            /\ (Bits(s, 11, 1) = 1) = gpu.force_set_mask_bit
            /\ (Bits(s, 12, 1) = 1) = gpu.preserve_masked_pixels
            /\ (Bits(s, 13, 1) = 1) = (gpu.field = "Top")
            /\ Bits(s, 14, 1) = 0
            /\ (Bits(s, 15, 1) = 1) = gpu.texture_disable
            /\ Bits(s, 16, 3) = gpu.hres
            /\ (Bits(s, 19, 1) = 1) = (gpu.vres = "Y480Lines")
            /\ (Bits(s, 20, 1) = 1) = (gpu.vmode = "Pal")
            /\ (Bits(s, 21, 1) = 1) = (gpu.display_depth = "D24Bits")
            /\ (Bits(s, 22, 1) = 1) = gpu.interlaced
            /\ (Bits(s, 23, 1) = 1) = gpu.display_disabled
            /\ (HighBit(s, 24) = 1) = gpu.gp0_interrupt
            /\ HighBit(s, 26) = 1 /\ HighBit(s, 27) = 1 /\ HighBit(s, 28) = 1
            /\ HighBit(s, 29) + 2 * HighBit(s, 30)
                   = (CASE gpu.dma_direction = "Off" -> 0
                        [] gpu.dma_direction = "Fifo" -> 1
                        [] gpu.dma_direction = "CpuToGp0" -> 2
                        [] gpu.dma_direction = "VRamToCpu" -> 3)
            /\ HighBit(s, 25)
                   = (CASE gpu.dma_direction = "Off" -> 0
                        [] gpu.dma_direction = "Fifo" -> 1
                        [] gpu.dma_direction = "CpuToGp0" -> HighBit(s, 28)
                        [] gpu.dma_direction = "VRamToCpu" -> HighBit(s, 27))
            /\ Top(s) \in 0..255 /\ s.arg \in 0..16777215

\* A status read with the draw mode at its highest values and DMA from VRAM.
C17_Witness ==
    /\ ~panicked
    /\ obs.op = "load"
    /\ obs.result = status(gpu)
    /\ gpu.page_base_x = 15 /\ gpu.texture_depth = "T15Bit"
    /\ gpu.dma_direction = "VRamToCpu"

\* C18: bit 31 of the status is 0 while the cursor is in vertical blanking;
\* outside it is the low bit of (display_vram_y_start + line_offset) & 0x1ff,
\* where line_offset is display_line * 2 + field (Top = 1) when interlaced
\* and display_line otherwise.
C18_StatusLineParity ==
    ~panicked =>
        LET line_offset == IF gpu.interlaced
                           THEN gpu.display_line * 2 + (IF gpu.field = "Top" THEN 1 ELSE 0)
                           ELSE gpu.display_line
            vblank == \/ gpu.display_line < gpu.display_line_start
                      \/ gpu.display_line >= gpu.display_line_end
        IN  HighBit(status(gpu), 31) =
                IF vblank THEN 0
                ELSE ((gpu.display_vram_y_start + line_offset) % 512) % 2

\* Status reads outside vertical blanking: an even line of an interlaced
\* picture, and a line whose bit 31 is 0.
C18_Witness ==
    /\ ~panicked
    /\ obs.op = "load"
    /\ obs.result = status(gpu)
    /\ ~in_vblank(gpu)
    /\ \/ gpu.interlaced /\ gpu.display_line % 2 = 0 /\ HighBit(obs.result, 31) = 1
       \/ gpu.display_vram_y_start = 1 /\ HighBit(obs.result, 31) = 0

\* A status read made now, before any further cycle elapses.
StatusReadAgain == load([World("load", W(0, 0)) EXCEPT !.tk.elapsed = 0], 4)

\* C19: a status read that follows a status read, with no store and no
\* cycle between them, returns the same word, leaves every field of the GPU
\* as it was, asserts no interrupt and calls no renderer.display().
C19_StatusReadRepeats ==
    (obs.op = "load" /\ ~panicked) =>
        \A again \in {StatusReadAgain} :
            /\ ~again.panicked
            /\ again.obs.result = obs.result
            /\ again.gpu = gpu
            /\ \A i \in 1..Len(again.obs.syncs) :
                   /\ again.obs.syncs[i].asserted = 0
                   /\ again.obs.syncs[i].displayed = 0

\* The first read came after time had passed and raised the interrupt.
C19_Witness ==
    /\ obs.op = "load"
    /\ ~panicked
    /\ obs.syncs[1].asserted = 1
    /\ gpu.display_line > 0
    /\ gpu.gpu_clock_phase > 0
    /\ StatusReadAgain.obs.result = obs.result

\* C20: the field is Top whenever the output is not interlaced: neither a
\* sync, nor a GP1(0x08) mode change (an interlaced picture turned
\* progressive included), nor a reset leaves interlaced false with field
\* Bottom.
C20_FieldTopUnlessInterlaced ==
    ~gpu.interlaced => gpu.field = "Top"

\* GP1(0x08) turned an interlaced picture showing the Bottom field
\* progressive.
C20_Witness ==
    /\ obs.op = "gp1"
    /\ Top(obs.val) = 8
    /\ ~panicked
    /\ obs.syncs[1].interlaced
    /\ obs.syncs[1].field = "Bottom"
    /\ ~gpu.interlaced
    /\ gpu.field = "Top"

\* C21: the timing cursor changes inside sync only.  During a store, what
\* goes into each sync call is what came out of the one before, and when the
\* store returns the cursor is what its last sync call left: no GP0 or GP1
\* command writes display_line, display_line_tick, gpu_clock_phase, field
\* or vblank_interrupt itself.
C21_AsClaimed ==
    (obs.op \in {"gp0", "gp1"} /\ ~panicked) =>
        LET n == Len(obs.syncs)
        IN  /\ n >= 1
            /\ \A i \in 1..(n - 1) :
                   /\ obs.syncs[i + 1].line_before = obs.syncs[i].display_line
                   /\ obs.syncs[i + 1].tick_before = obs.syncs[i].display_line_tick
                   /\ obs.syncs[i + 1].phase_before = obs.syncs[i].gpu_clock_phase
                   /\ obs.syncs[i + 1].field_before = obs.syncs[i].field
                   /\ obs.syncs[i + 1].was_vblank = obs.syncs[i].in_vblank
            /\ gpu.display_line = obs.syncs[n].display_line
            /\ gpu.display_line_tick = obs.syncs[n].display_line_tick
            /\ gpu.gpu_clock_phase = obs.syncs[n].gpu_clock_phase
            /\ gpu.field = obs.syncs[n].field
            /\ gpu.vblank_interrupt = obs.syncs[n].in_vblank

\* The state a load or a store of `op` would be called in now.
Called(op, val) == World(op, val)

\* C22: a load returns the register as it is after a sync over all the
\* cycles elapsed, and a store hands its word to GP0 or GP1 after that sync:
\* the sync is the first thing either does, and it leaves no cycle unspent.
\* The first two conjuncts call a load and a GP1(0x00) store in every state
\* where cycles are waiting to be spent; the last two are about the
\* operation just made.
C22_SyncComesFirst ==
    ~panicked =>
        /\ tk.elapsed > 0 =>
               \A synced \in {sync(Called("load", W(0, 0)))} :
               \A loaded \in {load(Called("load", W(0, 0)), 4)} :
                   ~synced.panicked =>
                       /\ synced.tk.elapsed = 0
                       /\ loaded.obs.result = status(synced.gpu)
                       /\ loaded.obs.syncs = synced.obs.syncs
                       /\ loaded.gpu = synced.gpu
        /\ tk.elapsed > 0 =>
               \A stored \in {store(Called("gp1", W(0, 0)), 4, W(0, 0))} :
               \A reset \in {gp1(sync(Called("gp1", W(0, 0))), W(0, 0))} :
                   /\ stored.gpu = reset.gpu
                   /\ stored.tk = reset.tk
                   /\ stored.obs.syncs = reset.obs.syncs
        /\ obs.op = "load" => (Len(obs.syncs) = 1 /\ obs.result = status(gpu))
        /\ obs.op \in {"gp0", "gp1"} => Len(obs.syncs) >= 1

\* A status read after cycles had elapsed that moved the cursor out of
\* vertical blanking: the word read has bit 31 set, which the registers as
\* they were before the sync would not have given.
C22_Witness ==
    /\ obs.op = "load"
    /\ ~panicked
    /\ obs.syncs[1].line_before = 0
    /\ gpu.display_line > 0
    /\ ~in_vblank(gpu)
    /\ HighBit(obs.result, 31) = 1

\* The cursor a command hands to its closing sync, given the report `r` of
\* the sync before: GP1(0x00) has set line and tick to 0 and the field to
\* Top, GP1(0x08) has set the field to Top, every other command nothing.
HandedOn(r) ==
    LET reset == obs.op = "gp1" /\ Top(obs.val) = 0
        mode  == obs.op = "gp1" /\ Top(obs.val) = 8
    IN  [ line   |-> IF reset THEN 0 ELSE r.display_line,
          tick   |-> IF reset THEN 0 ELSE r.display_line_tick,
          phase  |-> r.gpu_clock_phase,
          field  |-> IF reset \/ mode THEN "Top" ELSE r.field,
          vblank |-> r.in_vblank ]

\* C21 as amended: during a store the timing cursor changes inside sync,
\* with two exceptions written by the commands themselves before their
\* closing sync: GP1(0x00) sets display_line and display_line_tick to 0 and
\* field to Top, and GP1(0x08) sets field to Top.  No GP0 command and no
\* other GP1 command writes the cursor, and gpu_clock_phase and
\* vblank_interrupt are written by sync alone.
C21_CursorWrittenBySync ==
    (obs.op \in {"gp0", "gp1"} /\ ~panicked) =>
        LET n == Len(obs.syncs)
        IN  /\ n \in {1, 2}
            /\ n = 2 <=> (obs.op = "gp1" /\ Top(obs.val) \in {0, 7, 8})
            /\ n = 2 =>
                   [ line   |-> obs.syncs[2].line_before,
                     tick   |-> obs.syncs[2].tick_before,
                     phase  |-> obs.syncs[2].phase_before,
                     field  |-> obs.syncs[2].field_before,
                     vblank |-> obs.syncs[2].was_vblank ] = HandedOn(obs.syncs[1])
            /\ gpu.display_line = obs.syncs[n].display_line
            /\ gpu.display_line_tick = obs.syncs[n].display_line_tick
            /\ gpu.gpu_clock_phase = obs.syncs[n].gpu_clock_phase
            /\ gpu.field = obs.syncs[n].field
            /\ gpu.vblank_interrupt = obs.syncs[n].in_vblank

\* A reset that came at line 17.
C21_Witness ==
    /\ obs.op = "gp1"
    /\ Top(obs.val) = 0
    /\ ~panicked
    /\ obs.syncs[1].display_line = 17
    /\ gpu.display_line = 0

\* An image load is in flight.
InFlight == ~panicked /\ gpu.gp0_mode = "ImageLoad" /\ gpu.gp0_words_remaining > 0

\* The operation that led to `w` returned with the image load as it is now.
ImageLoadKept(w) ==
    w.panicked \/ /\ w.gpu.gp0_mode = gpu.gp0_mode
                  /\ w.gpu.gp0_words_remaining = gpu.gp0_words_remaining

\* The operation that led to `w` ended the image load.
ImageLoadEnded(w) ==
    ~w.panicked /\ w.gpu.gp0_mode = "Command" /\ w.gpu.gp0_words_remaining = 0

\* GP1 words of the commands 0x02..0x08 and 0x10.
PlainGp1Words ==
    { W(2, 0), W(3, 0), W(4, 1), W(5, 1024), W(6, 608 + 3158 * 4096),
      W(7, 16 + 256 * 1024), W(8, 0), W(16, 7) }

\* Loads and a bare sync leave the image load as it is.
ReadsKeepImageLoad ==
    /\ ImageLoadKept(load(World("load", W(0, 0)), 0))
    /\ ImageLoadKept(load(World("load", W(0, 0)), 4))
    /\ ImageLoadKept(sync(World("sync", W(0, 0))))

\* C23: an image load in flight stays in flight, with the same count of
\* words owed, across loads, syncs and every GP1 command other than
\* GP1(0x01).
C23_AsClaimed ==
    InFlight =>
        /\ ReadsKeepImageLoad
        /\ \A val \in PlainGp1Words \cup {W(0, 0)} :
               ImageLoadKept(store(World("gp1", val), 4, val))

\* C23 as amended: an image load in flight stays in flight, with the same
\* count of words owed, across loads, syncs and the GP1 commands 0x02..0x08
\* and 0x10; GP1(0x01) and GP1(0x00) end it (Command mode, no word owed);
\* a GP0 word takes one word off the count and ends it when none is left.
C23_ImageLoadPersists ==
    InFlight =>
        /\ ReadsKeepImageLoad
        /\ \A val \in PlainGp1Words :
               ImageLoadKept(store(World("gp1", val), 4, val))
        /\ \A val \in {W(0, 0), W(1, 0)} :
               ImageLoadEnded(store(World("gp1", val), 4, val))
        /\ \A val \in DataWords :
               LET w == store(World("gp0", val), 0, val)
               IN  /\ ~w.panicked
                   /\ w.gpu.gp0_words_remaining = gpu.gp0_words_remaining - 1
                   /\ w.gpu.gp0_mode =
                          IF gpu.gp0_words_remaining = 1 THEN "Command" ELSE "ImageLoad"

\* A status read came while two words of an image were owed.
C23_Witness ==
    /\ InFlight
    /\ obs.op = "load"
    /\ hist.img_left = 2
    /\ gpu.gp0_words_remaining = 2

\* A GP0 word and GP1 words whose top byte no dispatch table has.
UnhandledGp0Word == W(3, 0)

UnhandledGp1Words == {W(9, 0), W(15, 0), W(17, 0), W(255, 0)}

\* What the next GP0 word is to the driver that writes the stream.
NextWordIs ==
    IF hist.img_left > 0 THEN "data"
    ELSE IF hist.pkt.got < hist.pkt.need THEN "param"
    ELSE "opcode"

\* C24: a GP0 word with a top byte outside the dispatch table is fatal
\* exactly when it arrives with gp0_words_remaining = 0, that is where an
\* opcode is due; written as a parameter of an unfinished packet or as a
\* word of image data it is accepted and not decoded.  A GP1 word with a top
\* byte other than 0x00..0x08 and 0x10 is fatal wherever it arrives.
C24_AsClaimed ==
    ~panicked =>
        /\ LET w == store(World("gp0", UnhandledGp0Word), 0, UnhandledGp0Word)
           IN  /\ w.panicked <=> gpu.gp0_words_remaining = 0
               /\ NextWordIs \in {"param", "data"} => (~w.panicked /\ ~w.obs.decoded)
               /\ NextWordIs = "opcode" => w.panicked
        /\ \A val \in UnhandledGp1Words : store(World("gp1", val), 4, val).panicked

\* The GP0 words 0x02804020, 0x00100020, 0x00400030 stored one after the
\* other, starting now.
FillRectStored ==
    LET a == W(2, 8405024)
        b == W(0, 1048608)
        c == W(0, 4194352)
    IN  store(store(store(World("gp0", a), 0, a), 0, b), 0, c)

\* C25: the GP0 words 0x02804020, 0x00100020, 0x00400030, sent when
\* gp0_words_remaining is 0, make the renderer receive one quad, with the
\* corners (0x20,0x10), (0x60,0x10), (0x20,0x40), (0x60,0x40) and the color
\* (0x20, 0x40, 0x80) at each.
C25_AsClaimed ==
    (~panicked /\ gpu.gp0_words_remaining = 0) =>
        /\ ~FillRectStored.panicked
        /\ FillRectStored.obs.draws =
               << [ call      |-> "push_quad",
                    positions |-> << <<32, 16>>, <<96, 16>>, <<32, 64>>, <<96, 64>> >>,
                    colors    |-> << <<32, 64, 128>>, <<32, 64, 128>>,
                                     <<32, 64, 128>>, <<32, 64, 128>> >> ] >>


\* gpu_clock_phase + elapsed * ratio of a reported sync, split into the whole
\* ticks (acc >> 16) and the new phase (acc mod 2^16).  With ratio = 2^16 + r
\* and elapsed = a * 2^8 + b the product is elapsed * 2^16 + a * r * 2^8 + b * r.
AccOf(r) ==
    LET ratio == IF gpu.hardware = "Ntsc" THEN 103890 ELSE 102942
        rr    == ratio - 65536
        a     == r.elapsed \div 256
        b     == r.elapsed % 256
        low   == ((a * rr) % 256) * 256 + b * rr + r.phase_before
    IN  [ ticks |-> r.elapsed + (a * rr) \div 256 + low \div 65536,
          phase |-> low % 65536 ]

TicksPerLineOf(r) == IF r.vmode_before = "Ntsc" THEN 3412 ELSE 3404

LinesPerFrameOf(r) == IF r.vmode_before = "Ntsc" THEN 263 ELSE 314

\* The advance of a reported sync is exactly k >= 1 whole lines and ends on a
\* line of the same frame.
WholeLines(r) ==
    /\ AccOf(r).ticks > 0
    /\ AccOf(r).ticks % TicksPerLineOf(r) = 0
    /\ r.line_before + AccOf(r).ticks \div TicksPerLineOf(r) < LinesPerFrameOf(r)

\* C26 as stated: a sync whose advance is exactly k whole lines inside the
\* frame adds k to display_line and leaves display_line_tick and
\* gpu_clock_phase at their values.
C26_AsClaimed ==
    \A i \in 1..Len(obs.syncs) :
        LET r == obs.syncs[i]
        IN  WholeLines(r) =>
                /\ r.display_line = r.line_before + AccOf(r).ticks \div TicksPerLineOf(r)
                /\ r.display_line_tick = r.tick_before
                /\ r.gpu_clock_phase = r.phase_before

\* C26 (amended): every sync leaves gpu_clock_phase = acc mod 2^16 with
\* acc = gpu_clock_phase + elapsed * ratio and moves the cursor by acc >> 16
\* ticks (counted modulo the frame length); when that advance is exactly
\* k whole lines inside the frame and the starting tick lies inside its line,
\* display_line grows by k and display_line_tick keeps its value.
C26_WholeLinesKeepTick ==
    \A i \in 1..Len(obs.syncs) :
        LET r     == obs.syncs[i]
            tpl   == TicksPerLineOf(r)
            frame == tpl * LinesPerFrameOf(r)
        IN  /\ r.gpu_clock_phase = AccOf(r).phase
            /\ (r.display_line * tpl + r.display_line_tick) % frame
                   = (r.line_before * tpl + r.tick_before + AccOf(r).ticks) % frame
            /\ (WholeLines(r) /\ r.tick_before < tpl) =>
                   /\ r.display_line = r.line_before + AccOf(r).ticks \div tpl
                   /\ r.display_line_tick = r.tick_before

\* 262 whole lines from line 0, tick 0, phase 0 in NTSC: the cursor is on
\* line 262, tick 0, and the phase has moved.
C26_Witness ==
    /\ Len(obs.syncs) > 0
    /\ LET r == obs.syncs[1]
       IN  /\ r.vmode_before = "Ntsc"
           /\ r.line_before = 0 /\ r.tick_before = 0 /\ r.phase_before = 0
           /\ AccOf(r).ticks = 262 * 3412
           /\ r.display_line = 262 /\ r.display_line_tick = 0
           /\ r.gpu_clock_phase # 0


\* in_vblank() as the sync before report i of the running operation left it:
\* the in_vblank() of the preceding sync of the same operation, or the
\* vblank_interrupt flag found by the first one.
RecordedVblank(i) ==
    IF i > 1 THEN obs.syncs[i - 1].in_vblank ELSE obs.syncs[i].was_vblank

\* C27: a sync that finds in_vblank() recorded true and leaves it false calls
\* renderer.display() exactly once, and a sync without that falling edge does
\* not call it.
C27_DisplayOnFallingEdge ==
    \A i \in 1..Len(obs.syncs) :
        obs.syncs[i].displayed =
            IF RecordedVblank(i) /\ ~obs.syncs[i].in_vblank THEN 1 ELSE 0

\* A sync recorded the vertical blanking and the next sync of the operation
\* ended outside it, with one display() call.
C27_Witness ==
    \E i \in 2..Len(obs.syncs) :
        /\ obs.syncs[i - 1].in_vblank
        /\ ~obs.syncs[i].in_vblank
        /\ obs.syncs[i].displayed = 1


\* The line a reported sync computes before wrapping: the starting line plus
\* the whole lines in the starting tick and the advance.
NewLineOf(r) ==
    r.line_before + (r.tick_before + AccOf(r).ticks) \div TicksPerLineOf(r)

\* Top = 1, Bottom = 0.
FieldNumber(f) == IF f = "Top" THEN 1 ELSE 0

\* C28 as stated: an interlaced sync that moves the cursor to or beyond the
\* last line of the frame sets field to Top when nframes + field is odd and
\* to Bottom when it is even, nframes = new_line / lines_per_frame; a
\* progressive sync leaves field alone.
C28_AsClaimed ==
    \A i \in 1..Len(obs.syncs) :
        LET r       == obs.syncs[i]
            nframes == NewLineOf(r) \div LinesPerFrameOf(r)
        IN  /\ (r.interlaced_before /\ NewLineOf(r) >= LinesPerFrameOf(r)) =>
                   r.field = IF (nframes + FieldNumber(r.field_before)) % 2 = 1
                             THEN "Top" ELSE "Bottom"
            /\ ~r.interlaced_before => r.field = r.field_before


\* GP1(0x08) words: each of bits 0-6 alone, NTSC interlaced 480 lines, all of
\* bits 0-6, and bit 7.
DisplayModeWords ==
    { W(8, 0), W(8, 1), W(8, 2), W(8, 4), W(8, 8), W(8, 16), W(8, 32), W(8, 64),
      W(8, 36), W(8, 127), W(8, 128) }

\* The registers GP1(0x08) decodes from val, without the field.
DisplayModeDecoded(g, val) ==
    /\ g.hres = Bits(val, 0, 2) * 2 + Bits(val, 6, 1)
    /\ (g.vres = "Y480Lines") = (Bits(val, 2, 1) = 1)
    /\ (g.vres = "Y240Lines") = (Bits(val, 2, 1) = 0)
    /\ (g.vmode = "Pal") = (Bits(val, 3, 1) = 1)
    /\ (g.vmode = "Ntsc") = (Bits(val, 3, 1) = 0)
    /\ (g.display_depth = "D24Bits") = (Bits(val, 4, 1) = 0)
    /\ (g.display_depth = "D15Bits") = (Bits(val, 4, 1) = 1)
    /\ g.interlaced = (Bits(val, 5, 1) = 1)

\* C29 as stated: a store of GP1(0x08) with bit 7 clear leaves hres, vres,
\* vmode, display_depth and interlaced decoded from the word and field Top;
\* with bit 7 set the store is fatal.
C29_AsClaimed ==
    ~panicked =>
        \A val \in DisplayModeWords :
            LET w == store(World("gp1", val), 4, val)
            IN  IF Bits(val, 7, 1) = 1
                THEN w.panicked
                ELSE ~w.panicked =>
                         DisplayModeDecoded(w.gpu, val) /\ w.gpu.field = "Top"


\* GP0(0xE3), GP0(0xE4) and GP0(0xE5) words with the selector that reads
\* them back and the width of the field: left 5, top 3; every bit of the
\* word set; right 1023, bottom 1; x = -1, y = 1.
InfoRoundTrips ==
    { [val |-> W(227, 5 + 3 * 1024),    selector |-> 3, bits |-> 20],
      [val |-> W(227, 16777215),        selector |-> 3, bits |-> 20],
      [val |-> W(228, 1023 + 1 * 1024), selector |-> 4, bits |-> 20],
      [val |-> W(228, 16777215),        selector |-> 4, bits |-> 20],
      [val |-> W(229, 2047 + 1 * 2048), selector |-> 5, bits |-> 22],
      [val |-> W(229, 16777215),        selector |-> 5, bits |-> 22] }

\* GP1(0x10) with selector n dispatched in world w, then a load at offset 0.
InfoRead(w, n) ==
    \* gp1 is evaluated once
    CHOOSE r \in {[staged |-> s, loaded |-> load(s, 0)] : s \in {gp1(w, W(16, n))}} : TRUE

\* C30: when a GP0 word is decoded as the command 0xE3, 0xE4 or 0xE5,
\* GP1(0x10) with selector 3, 4 or 5 then stages the low 20, 20 or 22 bits
\* of that word; selector 7 stages 2; the other selectors are fatal; and
\* the load at offset 0 that follows returns the staged word.
C30_InfoRoundTrip ==
    (~panicked /\ gpu.gp0_mode = "Command" /\ gpu.gp0_words_remaining = 0) =>
        /\ \A t \in InfoRoundTrips :
               \A r \in {InfoRead(gp0(World("gp0", t.val), t.val), t.selector)} :
                   ~r.loaded.panicked =>
                       /\ r.staged.gpu.read_word = W(0, t.val.arg % (2 ^ t.bits))
                       /\ r.loaded.obs.result = W(0, t.val.arg % (2 ^ t.bits))
        /\ \A r \in {InfoRead(World("gp1", W(16, 7)), 7)} :
               ~r.loaded.panicked =>
                   /\ r.staged.gpu.read_word = W(0, 2)
                   /\ r.loaded.obs.result = W(0, 2)
        /\ \A n \in (0..15) \ {3, 4, 5, 7} :
               gp1(World("gp1", W(16, n)), W(16, n)).panicked

\* A word 0xE3000005 has been decoded as GP0(0xE3) and has set the left
\* edge to 5; GP1(0x10) with selector 3 and a load at offset 0 then give
\* back 0x000005.
C30_Witness ==
    /\ ~panicked
    /\ obs.op = "gp0" /\ obs.val = W(227, 5) /\ obs.decoded
    /\ gpu.gp0_mode = "Command" /\ gpu.gp0_words_remaining = 0
    /\ gpu.drawing_area_left = 5
    /\ \A r \in {InfoRead(World("gp1", W(16, 3)), 3)} :
           /\ ~r.loaded.panicked
           /\ r.staged.gpu.read_word = W(0, 5)
           /\ r.loaded.obs.result = W(0, 5)


\* The length the GP0 table declares for the packet a method handles.
DeclaredWords(method) ==
    CASE method \in {"gp0_nop", "gp0_clear_cache", "gp0_draw_mode", "gp0_texture_window",
                     "gp0_drawing_area_top_left", "gp0_drawing_area_bottom_right",
                     "gp0_drawing_offset", "gp0_mask_bit_setting"} -> 1
      [] method \in {"gp0_fill_rect", "gp0_rect_opaque", "gp0_image_load",
                     "gp0_image_store"} -> 3
      [] method \in {"gp0_triangle_mono_opaque", "gp0_rect_texture_blend_opaque",
                     "gp0_rect_texture_raw_opaque"} -> 4
      [] method = "gp0_quad_mono_opaque" -> 5
      [] method = "gp0_triangle_shaded_opaque" -> 6
      [] method = "gp0_quad_shaded_opaque" -> 8
      [] method \in {"gp0_quad_texture_blend_opaque", "gp0_quad_texture_raw_opaque"} -> 9

\* C31: the command buffer never holds more than 12 words; while a packet
\* is being collected the words queued and the words awaited add up to the
\* declared length of its opcode, so that no push finds the buffer full;
\* and a handler runs with exactly the declared number of words queued and
\* stops the emulator only for the texture depth 3 of GP0(0xE1), never for
\* an index at or above the length.
C31_BufferHoldsThePacket ==
    /\ Len(gpu.gp0_command) <= 12
    /\ (~panicked /\ gpu.gp0_mode = "Command" /\ gpu.gp0_words_remaining > 0) =>
           /\ Len(gpu.gp0_command) >= 1
           /\ Len(gpu.gp0_command) + gpu.gp0_words_remaining
                  = DeclaredWords(gpu.gp0_command_method)
    /\ (obs.op = "gp0" /\ obs.handlers # <<>>) =>
           /\ Len(obs.handlers) = 1
           /\ Len(gpu.gp0_command) = DeclaredWords(obs.handlers[1])
           /\ panicked =>
                  /\ obs.handlers[1] = "gp0_draw_mode"
                  /\ Bits(gpu.gp0_command[1], 7, 2) = 3

\* The handler of a nine-word packet has run on nine queued words.
C31_Witness ==
    /\ ~panicked
    /\ obs.op = "gp0"
    /\ obs.handlers = <<"gp0_quad_texture_blend_opaque">>
    /\ Len(gpu.gp0_command) = 9


\* C32 as stated: whatever vertical range GP1(0x07) has set and wherever the
\* cursor is, no subtraction of the tick distance in predict_next_sync goes
\* below zero.  Every operation ends with the registers and the cursor as
\* its last predict_next_sync read them.
C32_AsClaimed ==
    obs.op # "new" => ~next_sync_underflows(gpu)


\* C33: every deadline a sync registers with the timekeeper is at least one
\* CPU cycle away.
C33_AsClaimed ==
    \A i \in 1..Len(obs.syncs) :
        obs.syncs[i].registered =>
            (obs.syncs[i].deadline.hi > 0 \/ obs.syncs[i].deadline.lo >= 1)


\* C34: gp0_interrupt is false in every state, bit 24 of the status word is
\* 0, and GP1(0x02) dispatched in any state leaves every field of the GPU,
\* and so the status word, as it was.
C34_NoGp0Interrupt ==
    /\ ~gpu.gp0_interrupt
    /\ HighBit(status(gpu), 24) = 0
    /\ ~panicked =>
           \A acked \in {gp1(World("gp1", W(2, 0)), W(2, 0))} :
               /\ ~acked.panicked
               /\ acked.gpu = gpu
               /\ status(acked.gpu) = status(gpu)

\* GP0(0xE1) has run and has changed the status word; the interrupt flag is
\* still clear and GP1(0x02) finds nothing to acknowledge.
C34_Witness ==
    /\ ~panicked
    /\ obs.op = "gp0"
    /\ obs.handlers = <<"gp0_draw_mode">>
    /\ obs.regs_changed
    /\ ~gpu.gp0_interrupt
    /\ status(gp1(World("gp1", W(2, 0)), W(2, 0)).gpu) = status(gpu)

=============================================================================
